---- MODULE Spec2Model ----
(***************************************************************************)
(* Model of media-sense-extract.                                           *)
(*                                                                         *)
(*  - SpecIndex: the Index page (src/src/pages/SlideToVideo.tsx, 542-758): *)
(*    its React state, the Start Analysis / cancel / upload handlers and   *)
(*    the timer callbacks of simulateProcessing.  Time is counted in units *)
(*    of 500 ms: the 2000 ms wait before a stage is StageDelay units, the  *)
(*    500 ms wait before a progress write is TickDelay units.              *)
(*  - SpecStatus: the overallProgress reduction of ProcessingStatus.       *)
(*  - SpecGen: one request to the generate-video-from-slides handler.      *)
(*  - SpecBackend: one request to one of the three backend handlers        *)
(*    (generate-video-from-slides, analyze-video, and the fan-out          *)
(*    generate-video-from-slides of src/unnamed/part_004).                 *)
(*  - SpecValidation: SpecBackend together with the SlideToVideo page      *)
(*    (src/src/pages/SlideToVideo.tsx, 35-473).                            *)
(*  - SpecAnalysis: the VideoAnalysis page of src/unnamed/part_001         *)
(*    composed with the analyze-video handler it invokes.                  *)
(*  - SpecUpload: the FileUpload component inside the Index page.          *)
(*  - SpecDemo: the demo-mode VideoAnalysis page of src/unnamed/part_000.  *)
(*  - SpecConfig: the ApiConfiguration component and its connection tests. *)
(*  - SpecHealth: the BackendStatus component and its health checks.       *)
(*  - SpecPages: the four pages that drive one isProcessing flag and one    *)
(*    progress value (SlideToVideo.tsx 35-473, part_000, part_001 with the *)
(*    analyze-video handler, part_002); one page is mounted at a time.     *)
(*    SpecPagesFair adds that a pending read or request settles.           *)
(*                                                                         *)
(* Display text (stage messages, the log list) is not state that any       *)
(* handler reads back and is left out; of the toasts only the title of the *)
(* last one of FileUpload and of handleAnalyzeVideo is kept, as history.   *)
(***************************************************************************)
EXTENDS Integers, Sequences, FiniteSets, TLC

\* ------------------------------------------------------------------------
\* Bounds

\* simulateProcessing runs whose timers are pending at the same time
MaxRuns == 2

\* key and provider edits made in ApiConfiguration
MaxEdits == 3

\* checkStatus calls made by one BackendStatus
MaxChecks == 4

\* ------------------------------------------------------------------------
\* Index page: types and program constants

\* null; every nullable value of the model is a record
NULL == [null |-> TRUE]

\* ProcessingStage, in declaration order (the key order of initialState.stages)
StageOrder == <<"upload", "metadata", "frames", "visual", "audio", "final", "complete">>

Stage == {StageOrder[i] : i \in 1..Len(StageOrder)}

StageStatus == {"pending", "processing", "complete", "error"}

\* the stages array of simulateProcessing
stages == <<"metadata", "frames", "visual", "audio", "final", "complete">>

\* setTimeout(resolve, 2000), in units of 500 ms
StageDelay == 4

\* setTimeout(resolve, 500), in units of 500 ms
TickDelay == 1

\* for (progress = 0; progress <= 100; progress += 25)
ProgressStep == 25

ProgressEnd == 100

\* files the user can hand to the page
Files == {[name |-> "demo.mp4"]}

\* values of analysisSettings.frameCount the user can choose
FrameCounts == {10, 15}

\* values handed to setApiConfig, as the pair of isValid flags
ApiConfigs == {[vision |-> [isValid |-> v], audio |-> [isValid |-> a]] :
                 v \in BOOLEAN, a \in BOOLEAN}

VARIABLES
    uploadedFile,      \* Index: File | null
    apiConfig,         \* Index: ApiConfig
    analysisSettings,  \* Index: AnalysisSettings
    processingState,   \* Index: ProcessingState | null
    results,           \* Index: AnalysisResults | null
    runs,              \* pending simulateProcessing calls, oldest first
    shownProgress,     \* ProcessingStatus: overallProgress of the last render
    genPc,             \* generate-video-from-slides: where the handler is
    genReq,            \* the request being handled
    genScript,         \* the handler's local `script`
    genFetches,        \* the two outbound fetches and what they settled with
    genTimers,         \* setTimeout timers that have not fired
    genResponse,       \* the Response returned, or null
    genCause,          \* history: which throw (if any) ended the request
    anPc,              \* analyze-video: where the handler is
    anReq,             \* the request being handled
    anFetches,         \* its outbound fetches and what they settled with
    anLocals,          \* the handler's locals visualAnalysis, audioAnalysis
    anResponse,        \* the Response returned, or null
    anCause,           \* history: which throw (if any) ended the request
    fanPc,             \* fan-out generate-video-from-slides: where the handler is
    fanReq,            \* the request being handled
    fanCalls,          \* the per-slide calls of each Promise.all, by index
    fanResponse,       \* the Response returned, or null
    fanCause,          \* history: which throw (if any) ended the request
    stvUploadedFile,   \* SlideToVideo page: File | null
    stvIsProcessing,   \* SlideToVideo page: isProcessing
    stvProgress,       \* SlideToVideo page: progress
    stvGeneratedResult,\* SlideToVideo page: GeneratedResult | null
    stvPc,             \* where the pending handleGenerateVideo call is
    stvSockets,        \* progress WebSockets that are open
    vaUploadedFile,    \* VideoAnalysis page: File | null
    vaIsProcessing,    \* VideoAnalysis page: isProcessing
    vaProgress,        \* VideoAnalysis page: progress, in sixths
    vaResults,         \* VideoAnalysis page: AnalysisResults | null
    vaPc,              \* where the pending handleAnalyzeVideo call is
    vaSims,            \* simulateProgress calls whose timers are pending
    vaInvoke,          \* history: what the last functions.invoke returned
    vaToast,           \* history: title of the last toast of handleAnalyzeVideo
    upIsUploading,     \* FileUpload: isUploading
    upPending,         \* FileUpload: the file handleFileProcess is waiting with
    upToast,           \* history: title of the last toast of validateFile
    dmUploadedFile,    \* demo-mode VideoAnalysis page: File | null
    dmIsProcessing,    \* demo-mode VideoAnalysis page: isProcessing
    dmProgress,        \* demo-mode VideoAnalysis page: progress
    dmResults,         \* demo-mode VideoAnalysis page: AnalysisResults | null
    dmPc,              \* where the pending handleAnalyzeVideo call is
    dmIntervals,       \* live progress intervals: the pending run's own, and left-over ones
    dmLast,            \* history: how the fetch of the last run settled
    acConfig,          \* ApiConfiguration: the config prop (the page's apiConfig state)
    acTesting,         \* ApiConfiguration: testingVision / testingAudio
    acPending,         \* connection tests in flight, oldest first, each with the config its closure captured
    acEdits,           \* key and provider edits made so far
    bsStatus,          \* BackendStatus: status
    bsLoading,         \* BackendStatus: loading
    bsChecks,          \* checkStatus calls in flight, by the number of their start
    bsStarted,         \* checkStatus calls started so far
    bsShown,           \* history: the call whose result status holds, 0 for none
    svUploadedFile,    \* hosted SlideToVideo page: File | null
    svIsProcessing,    \* hosted SlideToVideo page: isProcessing
    svProgress,        \* hosted SlideToVideo page: progress
    svGeneratedVideo,  \* hosted SlideToVideo page: generatedVideo
    svPc,              \* where the pending handleGenerateVideo call is
    svIntervals,       \* live progress intervals: the pending run's own, and left-over ones
    svLast             \* history: how the fetch of the last run settled

indexVars == <<uploadedFile, apiConfig, analysisSettings, processingState, results, runs>>

genVars == <<genPc, genReq, genScript, genFetches, genTimers, genResponse, genCause>>

anVars == <<anPc, anReq, anFetches, anLocals, anResponse, anCause>>

fanVars == <<fanPc, fanReq, fanCalls, fanResponse, fanCause>>

\* the variables of the components other than the Index page, ProcessingStatus
\* and the generate-video-from-slides handler
stvVars == <<stvUploadedFile, stvIsProcessing, stvProgress, stvGeneratedResult,
            stvPc, stvSockets>>

\* the variables of the pages that call a backend
vaVars == <<vaUploadedFile, vaIsProcessing, vaProgress, vaResults, vaPc, vaSims,
           vaInvoke, vaToast>>

dmVars == <<dmUploadedFile, dmIsProcessing, dmProgress, dmResults, dmPc, dmIntervals,
           dmLast>>

\* the variables of the further components
acVars == <<acConfig, acTesting, acPending, acEdits>>

bsVars == <<bsStatus, bsLoading, bsChecks, bsStarted, bsShown>>

svVars == <<svUploadedFile, svIsProcessing, svProgress, svGeneratedVideo, svPc, svIntervals,
           svLast>>

extraVars == <<dmVars, acVars, bsVars, svVars>>

pageVars == <<stvVars, vaVars, extraVars>>

upVars == <<upIsUploading, upPending, upToast>>

restVars == <<anVars, fanVars, pageVars, upVars>>

\* what an action of a further component leaves alone besides extraVars
coreVars == <<indexVars, shownProgress, genVars, anVars, fanVars, stvVars, vaVars, upVars>>

\* what an action of the demo-mode page leaves alone
exceptDm == <<coreVars, acVars, bsVars, svVars>>

\* what an action of ApiConfiguration leaves alone
exceptAc == <<coreVars, dmVars, bsVars, svVars>>

\* what an action of BackendStatus leaves alone
exceptBs == <<coreVars, dmVars, acVars, svVars>>

\* what an action of the hosted SlideToVideo page leaves alone
exceptSv == <<coreVars, dmVars, acVars, bsVars>>

vars == <<indexVars, shownProgress, genVars, restVars>>

\* ------------------------------------------------------------------------
\* Index page: operations

\* initialState with 'metadata' left 'pending'
initialState_metadataPending ==
    [currentStage |-> "upload",
     stages |-> [s \in Stage |->
        IF s = "upload" THEN [status |-> "complete", progress |-> 100]
        ELSE [status |-> "pending", progress |-> 0]]]

initialState ==
    [currentStage |-> "upload",
     stages |-> [s \in Stage |->
        IF s = "upload" THEN [status |-> "complete", progress |-> 100]
        ELSE IF s = "metadata" THEN [status |-> "processing", progress |-> 0]
        ELSE [status |-> "pending", progress |-> 0]]]

\* the first setProcessingState updater of the loop body, for stage number i
startStage(prev, i) ==
    IF prev = NULL THEN NULL
    ELSE LET completed ==
                 IF i - 1 >= 1
                 THEN [prev.stages EXCEPT ![stages[i - 1]] =
                          [status |-> "complete", progress |-> 100]]
                 ELSE prev.stages
         IN [currentStage |-> stages[i],
             stages |-> [completed EXCEPT ![stages[i]] =
                            [status |-> "processing", progress |-> 0]]]

\* the updater of the inner loop
writeProgress(prev, i, progress) ==
    IF prev = NULL THEN NULL
    ELSE [prev EXCEPT !.stages[stages[i]].progress = progress]

mockResults(frameCount) == [framesExtracted |-> frameCount]

IndexInit ==
    /\ uploadedFile = NULL
    /\ apiConfig = [vision |-> [isValid |-> FALSE], audio |-> [isValid |-> FALSE]]
    /\ analysisSettings = [frameCount |-> 10]
    /\ processingState = NULL
    /\ results = NULL
    /\ runs = <<>>

\* ProcessingStatus has not rendered
StatusIdle == shownProgress = -1

GenIdle ==
    /\ genPc = "idle"
    /\ genReq = NULL
    /\ genScript = NULL
    /\ genFetches = [script |-> [state |-> "none"], audio |-> [state |-> "none"]]
    /\ genTimers = {}
    /\ genResponse = NULL
    /\ genCause = "none"

AnIdle ==
    /\ anPc = "idle"
    /\ anReq = NULL
    /\ anFetches = [vision |-> [state |-> "none"], audio |-> [state |-> "none"],
                    summary |-> [state |-> "none"]]
    /\ anLocals = [visualAnalysis |-> NULL, audioAnalysis |-> NULL]
    /\ anResponse = NULL
    /\ anCause = "none"

FanIdle ==
    /\ fanPc = "idle"
    /\ fanReq = NULL
    /\ fanCalls = [scripts |-> <<>>, audio |-> <<>>, visual |-> <<>>]
    /\ fanResponse = NULL
    /\ fanCause = "none"

\* the SlideToVideo page as mounted
StvIdle ==
    /\ stvUploadedFile = NULL
    /\ stvIsProcessing = FALSE
    /\ stvProgress = 0
    /\ stvGeneratedResult = NULL
    /\ stvPc = "idle"
    /\ stvSockets = 0

\* the VideoAnalysis page as mounted
VaIdle ==
    /\ vaUploadedFile = NULL
    /\ vaIsProcessing = FALSE
    /\ vaProgress = 0
    /\ vaResults = NULL
    /\ vaPc = "idle"
    /\ vaSims = <<>>
    /\ vaInvoke = NULL
    /\ vaToast = "none"

\* the demo-mode VideoAnalysis page as mounted
DmIdle ==
    /\ dmUploadedFile = NULL
    /\ dmIsProcessing = FALSE
    /\ dmProgress = 0
    /\ dmResults = NULL
    /\ dmPc = "idle"
    /\ dmIntervals = [own |-> FALSE, leaked |-> 0]
    /\ dmLast = "none"

\* the page's initial apiConfig, and no connection test running
AcIdle ==
    /\ acConfig = [vision |-> [provider |-> "openai", apiKey |-> "", isValid |-> FALSE],
                   audio |-> [provider |-> "openai", apiKey |-> "", isValid |-> FALSE]]
    /\ acTesting = [vision |-> FALSE, audio |-> FALSE]
    /\ acPending = <<>>
    /\ acEdits = 0

\* BackendStatus after its first render, before its effect has run
BsIdle ==
    /\ bsStatus = NULL
    /\ bsLoading = TRUE
    /\ bsChecks = {}
    /\ bsStarted = 0
    /\ bsShown = 0

\* the hosted SlideToVideo page as mounted
SvIdle ==
    /\ svUploadedFile = NULL
    /\ svIsProcessing = FALSE
    /\ svProgress = 0
    /\ svGeneratedVideo = NULL
    /\ svPc = "idle"
    /\ svIntervals = [own |-> FALSE, leaked |-> 0]
    /\ svLast = "none"

ExtraIdle == DmIdle /\ AcIdle /\ BsIdle /\ SvIdle

PagesIdle == StvIdle /\ VaIdle /\ ExtraIdle

\* FileUpload as mounted
UpIdle ==
    /\ upIsUploading = FALSE
    /\ upPending = NULL
    /\ upToast = "none"

\* no other component has done anything
RestIdle ==
    /\ AnIdle
    /\ FanIdle
    /\ PagesIdle
    /\ UpIdle

\* the state after construction: the page mounted, no request received
Init ==
    /\ IndexInit
    /\ StatusIdle
    /\ GenIdle
    /\ RestIdle

\* whether handleFileUpload raises: its toast reads file.name after the two
\* setState calls
handleFileUploadThrows(file) == file = NULL

handleFileUpload(file) ==
    /\ uploadedFile' = file
    /\ results' = NULL
    /\ UNCHANGED <<apiConfig, analysisSettings, processingState, runs, shownProgress, genVars,
                   anVars, fanVars, pageVars>>

\* FileUpload hands an accepted file to onFileUpload
FileAccepted ==
    \E file \in Files :
        /\ uploadedFile = NULL
        /\ handleFileUpload(file)
        /\ UNCHANGED upVars

\* FileUpload's remove button: onFileUpload(null)
removeFile ==
    /\ uploadedFile # NULL
    /\ handleFileUpload(NULL)
    /\ UNCHANGED upVars

setApiConfig ==
    \E config \in ApiConfigs :
        /\ apiConfig' = config
        /\ UNCHANGED <<uploadedFile, analysisSettings, processingState, results, runs, shownProgress, genVars, restVars>>

setAnalysisSettings ==
    \E frameCount \in FrameCounts :
        /\ analysisSettings' = [analysisSettings EXCEPT !.frameCount = frameCount]
        /\ UNCHANGED <<uploadedFile, apiConfig, processingState, results, runs, shownProgress, genVars, restVars>>

\* the button rendered without looking at processingState
StartRendered_ignoresState == uploadedFile # NULL /\ results = NULL

\* the Start Analysis button is rendered
StartRendered == uploadedFile # NULL /\ processingState = NULL /\ results = NULL

handleStartAnalysis ==
    /\ StartRendered
    /\ Len(runs) < MaxRuns
    /\ IF uploadedFile = NULL
       THEN UNCHANGED <<processingState, runs>>
       ELSE IF ~apiConfig.vision.isValid \/ ~apiConfig.audio.isValid
       THEN UNCHANGED <<processingState, runs>>
       ELSE /\ processingState' = initialState
            /\ runs' = Append(runs, [stage |-> 1, progress |-> -1, due |-> StageDelay,
                                     frameCount |-> analysisSettings.frameCount])
    /\ UNCHANGED <<uploadedFile, apiConfig, analysisSettings, results, shownProgress, genVars, restVars>>

\* ProcessingStatus is rendered, so its cancel button can be clicked
StatusRendered == processingState # NULL /\ results = NULL

\* a cancel that also drops the pending timers
onCancel_clearsTimers ==
    /\ StatusRendered
    /\ processingState' = NULL
    /\ runs' = <<>>
    /\ UNCHANGED <<uploadedFile, apiConfig, analysisSettings, results, shownProgress, genVars, restVars>>

onCancel ==
    /\ StatusRendered
    /\ processingState' = NULL
    /\ UNCHANGED <<uploadedFile, apiConfig, analysisSettings, results, runs, shownProgress, genVars, restVars>>

RemoveAt(s, k) == [j \in 1..(Len(s) - 1) |-> IF j < k THEN s[j] ELSE s[j + 1]]

\* the 2000 ms timer of run k fires: the stage begins
StageTimer(k) ==
    /\ runs[k].due = 0
    /\ runs[k].progress = -1
    /\ processingState' = startStage(processingState, runs[k].stage)
    /\ runs' = [runs EXCEPT ![k].progress = 0, ![k].due = TickDelay]
    /\ UNCHANGED <<uploadedFile, apiConfig, analysisSettings, results, shownProgress, genVars, restVars>>

\* a 500 ms timer of run k fires: one progress write; after the last write of
\* the last stage the function goes on to setResults
ProgressTimer(k) ==
    /\ runs[k].due = 0
    /\ runs[k].progress >= 0
    /\ processingState' = writeProgress(processingState, runs[k].stage, runs[k].progress)
    /\ IF runs[k].progress + ProgressStep <= ProgressEnd
       THEN /\ runs' = [runs EXCEPT ![k].progress = @ + ProgressStep, ![k].due = TickDelay]
            /\ UNCHANGED results
       ELSE IF runs[k].stage < Len(stages)
       THEN /\ runs' = [runs EXCEPT ![k].stage = @ + 1, ![k].progress = -1,
                                    ![k].due = StageDelay]
            /\ UNCHANGED results
       ELSE /\ runs' = RemoveAt(runs, k)
            /\ results' = mockResults(runs[k].frameCount)
    /\ UNCHANGED <<uploadedFile, apiConfig, analysisSettings, shownProgress, genVars, restVars>>

\* 500 ms pass with no timer due
TimePasses ==
    /\ runs # <<>>
    /\ \A k \in 1..Len(runs) : runs[k].due > 0
    /\ runs' = [k \in 1..Len(runs) |-> [runs[k] EXCEPT !.due = @ - 1]]
    /\ UNCHANGED <<uploadedFile, apiConfig, analysisSettings, processingState, results, shownProgress, genVars, restVars>>

IndexNext ==
    \/ FileAccepted
    \/ removeFile
    \/ setApiConfig
    \/ setAnalysisSettings
    \/ handleStartAnalysis
    \/ onCancel
    \/ \E k \in 1..Len(runs) : StageTimer(k)
    \/ \E k \in 1..Len(runs) : ProgressTimer(k)
    \/ TimePasses

SpecIndex == Init /\ [][IndexNext]_vars

\* ------------------------------------------------------------------------
\* Index page: properties

status(ps, s) == ps.stages[s].status

progress(ps, s) == ps.stages[s].progress

\* pending < processing < complete
Rank(st) == CASE st = "pending" -> 0 [] st = "processing" -> 1
              [] st = "complete" -> 2 [] OTHER -> 3

\* stage number i of StageOrder turns 'processing' in this step
Begins(i) ==
    /\ processingState' # NULL
    /\ status(processingState', StageOrder[i]) = "processing"
    /\ \/ processingState = NULL
       \/ status(processingState, StageOrder[i]) # "processing"

Accepted == Len(runs') > Len(runs)

\* C2 as stated: when an analysis is accepted the new ProcessingState has
\* 'upload' complete and every other stage 'pending'.
C2_AllOthersPending ==
    [][Accepted =>
          /\ processingState' # NULL
          /\ \A s \in Stage :
                status(processingState', s) = (IF s = "upload" THEN "complete" ELSE "pending")]_vars

\* C2 amended: when an analysis is accepted the new ProcessingState has
\* 'upload' complete with progress 100, 'metadata' already 'processing' with
\* progress 0, and every later stage 'pending' with progress 0.
C2_InitialState ==
    [][Accepted =>
          /\ processingState' # NULL
          /\ processingState'.currentStage = "upload"
          /\ \A s \in Stage :
                processingState'.stages[s] =
                    (IF s = "upload" THEN [status |-> "complete", progress |-> 100]
                     ELSE IF s = "metadata" THEN [status |-> "processing", progress |-> 0]
                     ELSE [status |-> "pending", progress |-> 0])]_vars

\* an analysis has just been accepted: its first timer has its full delay left
C2_Witness ==
    /\ processingState # NULL
    /\ runs # <<>>
    /\ runs[Len(runs)].stage = 1
    /\ runs[Len(runs)].progress = -1
    /\ runs[Len(runs)].due = StageDelay
    /\ status(processingState, "metadata") = "processing"

\* C3: when results are delivered to a run that was not cancelled, every one
\* of the seven stages is 'complete' (none is left in 'processing').
C3_AllCompleteAtResults ==
    [][(results = NULL /\ results' # NULL /\ processingState' # NULL) =>
          \A s \in Stage : status(processingState', s) = "complete"]_vars

\* C4: the progress of the current stage never decreases, and a stage's
\* progress goes back to 0 only in the step in which that stage begins.
C4_ProgressMonotonic ==
    [][(processingState # NULL /\ processingState' # NULL) =>
          \A i \in 1..Len(StageOrder) :
             LET s == StageOrder[i] IN
             /\ (processingState.currentStage = s /\ processingState'.currentStage = s) =>
                    progress(processingState', s) >= progress(processingState, s)
             /\ (progress(processingState', s) = 0 /\ progress(processingState, s) > 0) =>
                    Begins(i)]_vars

\* C6: an analysis is started only in a state where no ProcessingState is
\* tracked and no results are held.
C6_StartOnlyWhenIdle ==
    [][Accepted => (processingState = NULL /\ results = NULL)]_vars

\* an analysis is being tracked
C6_Witness ==
    /\ processingState # NULL
    /\ runs # <<>>
    /\ results = NULL

\* C7: whenever results are held, and after every cancel, processingState is
\* null.
C7_DiscardedOnResults == results # NULL => processingState = NULL

\* C8: a step that clears processingState (the cancel action) changes nothing
\* else: the file, the configuration, the settings, the results and the
\* pending timers of simulateProcessing stay as they were.
C8_CancelFrame ==
    [][(processingState # NULL /\ processingState' = NULL) =>
          UNCHANGED <<uploadedFile, apiConfig, analysisSettings, results, runs>>]_vars

\* a cancelled analysis whose timers are still pending
C8_Witness ==
    /\ processingState = NULL
    /\ runs # <<>>
    /\ uploadedFile # NULL
    /\ results = NULL

\* ------------------------------------------------------------------------
\* ProcessingStatus: overallProgress

\* stage records handed to the component: the combinations the page writes
\* (a stale progress write can land on a 'pending' stage) and an 'error' stage
StageInputs ==
    {[status |-> "pending", progress |-> 0],
     [status |-> "pending", progress |-> 50],
     [status |-> "processing", progress |-> 25],
     [status |-> "processing", progress |-> 100],
     [status |-> "complete", progress |-> 100],
     [status |-> "error", progress |-> 75]}

\* the divisor written in the reducer
StageDivisor == 7

\* Object.values(state.stages).reduce(..., 0), the accumulator counted in
\* units of 1/StageDivisor so that acc + 100 / 7 is acc + 100
\* the reducer crediting an 'error' stage with its progress
RECURSIVE reduceStages_errorCounts(_, _, _)
reduceStages_errorCounts(stageMap, i, acc) ==
    IF i > Len(StageOrder) THEN acc
    ELSE LET stage == stageMap[StageOrder[i]] IN
         reduceStages_errorCounts(stageMap, i + 1,
            IF stage.status = "complete" THEN acc + 100
            ELSE IF stage.status \in {"processing", "error"} THEN acc + stage.progress
            ELSE acc)

RECURSIVE reduceStages(_, _, _)
reduceStages(stageMap, i, acc) ==
    IF i > Len(StageOrder) THEN acc
    ELSE LET stage == stageMap[StageOrder[i]] IN
         reduceStages(stageMap, i + 1,
            IF stage.status = "complete" THEN acc + 100
            ELSE IF stage.status = "processing" THEN acc + stage.progress
            ELSE acc)

overallProgress(state) == reduceStages(state.stages, 1, 0)

\* Math.round of a value given in units of 1/StageDivisor
MathRound(n) == (2 * n + StageDivisor) \div (2 * StageDivisor)

StatusInit ==
    /\ processingState \in [currentStage : {"upload"}, stages : [Stage -> StageInputs]]
    /\ shownProgress = -1
    /\ uploadedFile = NULL
    /\ apiConfig = [vision |-> [isValid |-> FALSE], audio |-> [isValid |-> FALSE]]
    /\ analysisSettings = [frameCount |-> 10]
    /\ results = NULL
    /\ runs = <<>>
    /\ GenIdle
    /\ RestIdle

\* the component renders with state = processingState
RenderStatus ==
    /\ processingState # NULL
    /\ shownProgress = -1
    /\ shownProgress' = overallProgress(processingState)
    /\ UNCHANGED <<indexVars, genVars, restVars>>

StatusNext == RenderStatus

SpecStatus == StatusInit /\ [][StatusNext]_vars

RECURSIVE SumOver(_, _)
SumOver(S, f) ==
    IF S = {} THEN 0
    ELSE LET x == CHOOSE x \in S : TRUE IN f[x] + SumOver(S \ {x}, f)

\* C5: after a render the overall progress is (100 * number of 'complete'
\* stages + the progress of every 'processing' stage) / 7, 'pending' and
\* 'error' stages count 0, and the value lies in 0..100.
C5_OverallProgress ==
    shownProgress # -1 =>
        LET st == processingState.stages
            done == {s \in Stage : st[s].status = "complete"}
            busy == {s \in Stage : st[s].status = "processing"}
        IN /\ shownProgress = 100 * Cardinality(done) + SumOver(busy, [s \in Stage |-> st[s].progress])
           /\ shownProgress >= 0
           /\ shownProgress <= 100 * StageDivisor
           /\ MathRound(shownProgress) \in 0..100

\* a render of a state with complete, processing, pending and error stages
C5_Witness ==
    /\ shownProgress = 325
    /\ \E s \in Stage : processingState.stages[s].status = "error"
    /\ \E s \in Stage : processingState.stages[s] = [status |-> "pending", progress |-> 50]
    /\ Cardinality({s \in Stage : processingState.stages[s].status = "complete"}) = 2
    /\ Cardinality({s \in Stage : processingState.stages[s].status = "processing"}) = 2

\* ------------------------------------------------------------------------
\* generate-video-from-slides: the serve handler
\*
\* Error messages are sequences of words.  Time is counted in units of
\* 15000 ms: the timer of the script race is set to ScriptTimeout units, the
\* timer of the audio race to AudioTimeout units.  Nothing clears a timer.

\* setTimeout(..., 30000), in units of 15000 ms
ScriptTimeout == 2

\* setTimeout(..., 45000), in units of 15000 ms
AudioTimeout == 3

\* requests: the method, whether the body parses, and whether the parsed body
\* carries slideData and settings; env: whether OPENAI_API_KEY is set
Requests ==
    [method : {"OPTIONS", "POST"}, json : BOOLEAN, slideData : BOOLEAN,
     settings : BOOLEAN, apiKey : BOOLEAN]

\* Response.statusText values of a non-2xx upstream answer
StatusTexts == {<<>>, <<"Unauthorized">>, <<"Too", "Many", "Requests">>}

\* how an outbound fetch settles: a 2xx answer whose body has or lacks the
\* expected shape, a non-2xx answer, or a rejection (network error)
FetchOutcomes ==
    {[kind |-> "ok", wellFormed |-> w] : w \in BOOLEAN}
      \cup {[kind |-> "status", statusText |-> t] : t \in StatusTexts}
      \cup {[kind |-> "reject"]}

SlideDataRequired == <<"Slide", "data", "is", "required">>

KeyNotConfigured == <<"OpenAI", "API", "key", "not", "configured">>

\* the script timer rejecting with the message of an upstream failure
ScriptTimeoutError_asFailure == <<"Script", "generation", "failed:">>

ScriptTimeoutError == <<"Script", "generation", "timeout">>

AudioTimeoutError == <<"Audio", "generation", "timeout">>

ScriptFailed(statusText) == <<"Script", "generation", "failed:">> \o statusText

AudioFailed(statusText) == <<"Audio", "generation", "failed:">> \o statusText

\* messages of errors the runtime raises: JSON parse failure, property access
\* on undefined, fetch rejection
RuntimeSyntaxError == <<"Unexpected", "end", "of", "JSON", "input">>

RuntimeTypeError == <<"Cannot", "read", "properties", "of", "undefined">>

RuntimeFetchError == <<"error", "sending", "request">>

corsHeaders == {"Access-Control-Allow-Origin", "Access-Control-Allow-Headers"}

\* a catch block that hands the script back with the error
errorResponse_withPartial(message) ==
    [status |-> 500, headers |-> corsHeaders \cup {"Content-Type"},
     body |-> [error |-> message, script |-> "script"]]

\* the catch block
errorResponse(message) ==
    [status |-> 500, headers |-> corsHeaders \cup {"Content-Type"},
     body |-> [error |-> message]]

okResponse(script) ==
    [status |-> 200, headers |-> corsHeaders \cup {"Content-Type"},
     body |-> [success |-> TRUE, script |-> script, audioUrl |-> "data:audio/mp3;base64"]]

\* the preflight answer without the CORS headers
optionsResponse_noCors == [status |-> 200, headers |-> {}, body |-> NULL]

optionsResponse == [status |-> 200, headers |-> corsHeaders, body |-> NULL]

\* the handler ends by throwing: the catch block answers
Throw(cause, message) ==
    /\ genPc' = "done"
    /\ genCause' = cause
    /\ genResponse' = errorResponse(message)

\* a request arrives; the handler runs up to its first await on a race
GenReceive ==
    \E req \in Requests :
        /\ genPc = "idle"
        /\ genReq' = req
        /\ IF req.method = "OPTIONS"
           THEN /\ genPc' = "done"
                /\ genResponse' = optionsResponse
                /\ UNCHANGED <<genCause, genFetches, genTimers>>
           ELSE IF ~req.json
           THEN Throw("other", RuntimeSyntaxError) /\ UNCHANGED <<genFetches, genTimers>>
           ELSE IF ~req.slideData
           THEN Throw("validation", SlideDataRequired) /\ UNCHANGED <<genFetches, genTimers>>
           ELSE IF ~req.apiKey
           THEN Throw("config", KeyNotConfigured) /\ UNCHANGED <<genFetches, genTimers>>
           ELSE IF ~req.settings
           THEN Throw("other", RuntimeTypeError) /\ UNCHANGED <<genFetches, genTimers>>
           ELSE /\ genPc' = "scriptRace"
                /\ genFetches' = [genFetches EXCEPT !.script = [state |-> "inflight"]]
                /\ genTimers' = genTimers \cup {[name |-> "script", due |-> ScriptTimeout]}
                /\ UNCHANGED <<genCause, genResponse>>
        /\ UNCHANGED <<genScript, indexVars, shownProgress, restVars>>

\* the speech fetch issued whatever the chat-completions fetch answered
GenScriptSettles_alwaysAudio ==
    \E out \in FetchOutcomes :
        /\ genFetches.script.state = "inflight"
        /\ genFetches' = [genFetches EXCEPT
              !.script = [state |-> "settled", response |-> out],
              !.audio = IF genPc = "scriptRace"
                        THEN [state |-> "inflight"] ELSE @]
        /\ IF genPc # "scriptRace"
           THEN UNCHANGED <<genPc, genScript, genTimers, genResponse, genCause>>
           ELSE IF out.kind = "reject"
           THEN Throw("other", RuntimeFetchError) /\ UNCHANGED <<genScript, genTimers>>
           ELSE IF out.kind = "status"
           THEN Throw("http", ScriptFailed(out.statusText)) /\ UNCHANGED <<genScript, genTimers>>
           ELSE IF ~out.wellFormed
           THEN Throw("other", RuntimeTypeError) /\ UNCHANGED <<genScript, genTimers>>
           ELSE /\ genPc' = "audioRace"
                /\ genScript' = [content |-> "script"]
                /\ genTimers' = genTimers \cup {[name |-> "audio", due |-> AudioTimeout]}
                /\ UNCHANGED <<genResponse, genCause>>
        /\ UNCHANGED <<genReq, indexVars, shownProgress, restVars>>

\* the chat-completions fetch settles
GenScriptSettles ==
    \E out \in FetchOutcomes :
        /\ genFetches.script.state = "inflight"
        /\ genFetches' = [genFetches EXCEPT
              !.script = [state |-> "settled", response |-> out],
              !.audio = IF genPc = "scriptRace" /\ out.kind = "ok" /\ out.wellFormed
                        THEN [state |-> "inflight"] ELSE @]
        /\ IF genPc # "scriptRace"
           THEN UNCHANGED <<genPc, genScript, genTimers, genResponse, genCause>>
           ELSE IF out.kind = "reject"
           THEN Throw("other", RuntimeFetchError) /\ UNCHANGED <<genScript, genTimers>>
           ELSE IF out.kind = "status"
           THEN Throw("http", ScriptFailed(out.statusText)) /\ UNCHANGED <<genScript, genTimers>>
           ELSE IF ~out.wellFormed
           THEN Throw("other", RuntimeTypeError) /\ UNCHANGED <<genScript, genTimers>>
           ELSE /\ genPc' = "audioRace"
                /\ genScript' = [content |-> "script"]
                /\ genTimers' = genTimers \cup {[name |-> "audio", due |-> AudioTimeout]}
                /\ UNCHANGED <<genResponse, genCause>>
        /\ UNCHANGED <<genReq, indexVars, shownProgress, restVars>>

\* the 30000 ms timer fires
GenScriptTimer ==
    /\ [name |-> "script", due |-> 0] \in genTimers
    /\ genTimers' = genTimers \ {[name |-> "script", due |-> 0]}
    /\ IF genPc = "scriptRace"
       THEN Throw("scriptTimeout", ScriptTimeoutError)
       ELSE UNCHANGED <<genPc, genResponse, genCause>>
    /\ UNCHANGED <<genReq, genScript, genFetches, indexVars, shownProgress, restVars>>

\* the speech fetch settles
GenAudioSettles ==
    \E out \in FetchOutcomes :
        /\ genFetches.audio.state = "inflight"
        /\ genFetches' = [genFetches EXCEPT !.audio = [state |-> "settled", response |-> out]]
        /\ IF genPc # "audioRace"
           THEN UNCHANGED <<genPc, genResponse, genCause>>
           ELSE IF out.kind = "reject"
           THEN Throw("other", RuntimeFetchError)
           ELSE IF out.kind = "status"
           THEN Throw("http", AudioFailed(out.statusText))
           ELSE /\ genPc' = "done"
                /\ genResponse' = okResponse(genScript.content)
                /\ UNCHANGED genCause
        /\ UNCHANGED <<genReq, genScript, genTimers, indexVars, shownProgress, restVars>>

\* the 45000 ms timer fires
GenAudioTimer ==
    /\ [name |-> "audio", due |-> 0] \in genTimers
    /\ genTimers' = genTimers \ {[name |-> "audio", due |-> 0]}
    /\ IF genPc = "audioRace"
       THEN Throw("audioTimeout", AudioTimeoutError)
       ELSE UNCHANGED <<genPc, genResponse, genCause>>
    /\ UNCHANGED <<genReq, genScript, genFetches, indexVars, shownProgress, restVars>>

\* 15000 ms pass with no timer due
GenTimePasses ==
    /\ genTimers # {}
    /\ \A t \in genTimers : t.due > 0
    /\ genTimers' = {[t EXCEPT !.due = @ - 1] : t \in genTimers}
    /\ UNCHANGED <<genPc, genReq, genScript, genFetches, genResponse, genCause>>
    /\ UNCHANGED <<indexVars, shownProgress, restVars>>

GenNext ==
    \/ GenTimePasses
    \/ GenReceive
    \/ GenScriptSettles
    \/ GenScriptTimer
    \/ GenAudioSettles
    \/ GenAudioTimer

SpecGen == Init /\ [][GenNext]_vars

\* messages of the failures that are not timeouts
NonTimeoutMessages ==
    {SlideDataRequired, KeyNotConfigured}
      \cup {ScriptFailed(t) : t \in StatusTexts}
      \cup {AudioFailed(t) : t \in StatusTexts}

\* phrase occurs in message, word for word
Contains(message, phrase) ==
    \E i \in 0..(Len(message) - Len(phrase)) :
        SubSeq(message, i + 1, i + Len(phrase)) = phrase

\* C9: a provider call that loses the race against its timer ends the request
\* in an error response, and the message of that response differs from the
\* message of every upstream non-2xx, missing-key and missing-slide-data
\* failure.
C9_TimeoutMessageDistinct ==
  /\ \A f \in {"script", "audio"} :
        (genFetches[f].state = "inflight" /\ ~\E t \in genTimers : t.name = f) =>
            /\ genResponse # NULL
            /\ genResponse.status = 500
            /\ genCause = (IF f = "script" THEN "scriptTimeout" ELSE "audioTimeout")
  /\ genResponse # NULL =>
        /\ genCause \in {"scriptTimeout", "audioTimeout"} =>
              /\ genResponse.status = 500
              /\ genResponse.body.error \notin NonTimeoutMessages
        /\ \A other \in {"http", "config", "validation"} :
              genCause = other =>
                 \A timeout \in {"scriptTimeout", "audioTimeout"} :
                    /\ genResponse.status = 500
                    /\ genResponse.body.error # errorResponse(
                          IF timeout = "scriptTimeout" THEN ScriptTimeoutError
                          ELSE AudioTimeoutError).body.error

\* the audio call timed out after a script call that succeeded
C9_Witness ==
    /\ genResponse # NULL
    /\ genCause = "audioTimeout"
    /\ genFetches.script.state = "settled"
    /\ genFetches.audio.state = "inflight"

\* C10: the error returned after a provider call timed out contains the text
\* "timed out".
C10_ContainsTimedOut ==
    (genResponse # NULL /\ genCause \in {"scriptTimeout", "audioTimeout"}) =>
        /\ genResponse.status = 500
        /\ Contains(genResponse.body.error, <<"timed", "out">>)

\* C11: when the handler responds no timer of the request is still pending
\* and no outbound call is still in flight: the loser of each race has been
\* cancelled.
C11_LoserCancelled ==
    genResponse # NULL =>
        /\ genTimers = {}
        /\ \A f \in {"script", "audio"} : genFetches[f].state # "inflight"

\* C12: the speech call is issued only after the script call answered 2xx
\* and its body was read, the two calls are never in flight together, and
\* no speech call is made after script generation failed or timed out.
C12_ScriptBeforeAudio ==
    /\ genFetches.audio.state # "none" =>
          /\ genFetches.script.state = "settled"
          /\ genFetches.script.response.kind = "ok"
          /\ genScript # NULL
    /\ ~(genFetches.script.state = "inflight" /\ genFetches.audio.state = "inflight")
    /\ (genFetches.script.state = "settled" /\ genFetches.script.response.kind # "ok") =>
          genFetches.audio.state = "none"
    /\ genCause = "scriptTimeout" => genFetches.audio.state = "none"

\* the script call answered after its timer had fired, and no speech call
\* was made
C12_Witness ==
    /\ genCause = "scriptTimeout"
    /\ genFetches.script.state = "settled"
    /\ genFetches.script.response = [kind |-> "ok", wellFormed |-> TRUE]
    /\ genFetches.audio.state = "none"

\* C15: a step that answers the request after the script was generated and
\* the audio step failed or timed out answers with an error whose body holds
\* the message only, and starts no call and no timer; a call that has been
\* made is never made again.
C15_NoPartialResult ==
    [][/\ (genScript # NULL /\ genResponse = NULL /\ genResponse' # NULL
             /\ genResponse'.status # 200) =>
             /\ genResponse'.status = 500
             /\ DOMAIN genResponse'.body = {"error"}
             /\ \A f \in {"script", "audio"} :
                   genFetches'[f].state = "inflight" => genFetches[f].state = "inflight"
             /\ genTimers' \subseteq genTimers
       /\ \A f \in {"script", "audio"} :
             genFetches[f].state # "none" =>
                genFetches'[f].state \in {genFetches[f].state, "settled"}
      ]_vars

\* the speech call answered non-2xx after the script had been generated
C15_Witness ==
    /\ genScript # NULL
    /\ genResponse # NULL
    /\ genResponse.status = 500
    /\ genCause = "http"
    /\ genFetches.audio.state = "settled"
    /\ genFetches.audio.response.kind = "status"

\* ------------------------------------------------------------------------
\* analyze-video: the serve handler
\*
\* The handler awaits its three provider calls one after the other and sets
\* no timer.

\* settings.analysisType values; 'comprehensive' is what the VideoAnalysis
\* page sends
AnalysisTypes == {"full", "visual-only", "comprehensive"}

\* settings objects with and without a frameCount
AnSettings ==
    {[analysisType |-> t] : t \in AnalysisTypes}
      \cup {[analysisType |-> t, frameCount |-> 10] : t \in AnalysisTypes}

\* requests: the method, whether the body parses, whether the parsed body
\* carries videoBase64, its settings (or none); env: whether OPENAI_API_KEY
\* is set
AnRequests ==
    [method : {"OPTIONS", "POST"}, json : BOOLEAN, videoBase64 : BOOLEAN,
     settings : {NULL} \cup AnSettings, apiKey : BOOLEAN]

VideoDataRequired == <<"Video", "data", "is", "required">>

OpenAIError(statusText) == <<"OpenAI", "API", "error:">> \o statusText

SummaryFallback == <<"Unable", "to", "generate", "summary", "at", "this", "time.">>

\* frames.length: the loop runs while i < frameCount
extractFramesFromVideo(settings) ==
    IF "frameCount" \in DOMAIN settings THEN settings.frameCount ELSE 0

\* the 200 response; JSON.stringify drops the undefined members of metadata
analysisResponse(summary, locals, settings) ==
    [status |-> 200, headers |-> corsHeaders \cup {"Content-Type"},
     body |-> [summary |-> summary,
               visualAnalysis |-> locals.visualAnalysis,
               audioAnalysis |-> locals.audioAnalysis,
               metadata |-> [f \in DOMAIN settings \cap {"frameCount", "quality", "analysisType"}
                               |-> settings[f]],
               rawData |-> [frames |-> extractFramesFromVideo(settings)]]]

\* the handler ends by throwing: the catch block answers
AnThrow(cause, message) ==
    /\ anPc' = "done"
    /\ anCause' = cause
    /\ anResponse' = errorResponse(message)

\* the handler without the check of OPENAI_API_KEY
AnServe_noKeyCheck(req) ==
    /\ anPc = "idle"
    /\ anReq' = req
    /\ IF req.method = "OPTIONS"
       THEN /\ anPc' = "done"
            /\ anResponse' = optionsResponse
            /\ UNCHANGED <<anCause, anFetches>>
       ELSE IF ~req.json
       THEN AnThrow("other", RuntimeSyntaxError) /\ UNCHANGED anFetches
       ELSE IF ~req.videoBase64
       THEN AnThrow("validation", VideoDataRequired) /\ UNCHANGED anFetches
       ELSE IF req.settings = NULL
       THEN AnThrow("other", RuntimeTypeError) /\ UNCHANGED anFetches
       ELSE /\ anPc' = "vision"
            /\ anFetches' = [anFetches EXCEPT !.vision = [state |-> "inflight"]]
            /\ UNCHANGED <<anCause, anResponse>>
    /\ UNCHANGED anLocals

\* the handler up to its first await on a provider call
AnServe(req) ==
    /\ anPc = "idle"
    /\ anReq' = req
    /\ IF req.method = "OPTIONS"
       THEN /\ anPc' = "done"
            /\ anResponse' = optionsResponse
            /\ UNCHANGED <<anCause, anFetches>>
       ELSE IF ~req.json
       THEN AnThrow("other", RuntimeSyntaxError) /\ UNCHANGED anFetches
       ELSE IF ~req.videoBase64
       THEN AnThrow("validation", VideoDataRequired) /\ UNCHANGED anFetches
       ELSE IF ~req.apiKey
       THEN AnThrow("config", KeyNotConfigured) /\ UNCHANGED anFetches
       ELSE IF req.settings = NULL
       THEN AnThrow("other", RuntimeTypeError) /\ UNCHANGED anFetches
       ELSE /\ anPc' = "vision"
            /\ anFetches' = [anFetches EXCEPT !.vision = [state |-> "inflight"]]
            /\ UNCHANGED <<anCause, anResponse>>
    /\ UNCHANGED anLocals

\* a request arrives
AnReceive ==
    /\ \E req \in AnRequests : AnServe(req)
    /\ UNCHANGED <<indexVars, upVars, shownProgress, genVars, fanVars, pageVars>>

\* analyzeFramesWithOpenAI: the chat-completions fetch settles
AnVisionSettles ==
    \E out \in FetchOutcomes :
        /\ anPc = "vision"
        /\ anFetches.vision.state = "inflight"
        /\ IF out.kind = "reject"
           THEN /\ AnThrow("other", RuntimeFetchError)
                /\ anFetches' = [anFetches EXCEPT !.vision = [state |-> "settled", response |-> out]]
                /\ UNCHANGED anLocals
           ELSE IF out.kind = "status"
           THEN /\ AnThrow("http", OpenAIError(out.statusText))
                /\ anFetches' = [anFetches EXCEPT !.vision = [state |-> "settled", response |-> out]]
                /\ UNCHANGED anLocals
           ELSE IF ~out.wellFormed
           THEN /\ AnThrow("other", RuntimeTypeError)
                /\ anFetches' = [anFetches EXCEPT !.vision = [state |-> "settled", response |-> out]]
                /\ UNCHANGED anLocals
           ELSE /\ anLocals' = [anLocals EXCEPT !.visualAnalysis = [scenes |-> "content"]]
                /\ IF anReq.settings.analysisType \in {"full", "audio-only"}
                   THEN /\ anPc' = "audio"
                        /\ anFetches' = [anFetches EXCEPT
                              !.vision = [state |-> "settled", response |-> out],
                              !.audio = [state |-> "inflight"]]
                   ELSE /\ anPc' = "summary"
                        /\ anFetches' = [anFetches EXCEPT
                              !.vision = [state |-> "settled", response |-> out],
                              !.summary = [state |-> "inflight"]]
                /\ UNCHANGED <<anResponse, anCause>>
        /\ UNCHANGED <<anReq, indexVars, upVars, shownProgress, genVars, fanVars, pageVars>>

\* analyzeAudioWithOpenAI: the transcription fetch settles; the response is
\* never looked at, a rejection is caught and yields null
AnAudioSettles ==
    \E out \in FetchOutcomes :
        /\ anPc = "audio"
        /\ anFetches.audio.state = "inflight"
        /\ anLocals' = [anLocals EXCEPT !.audioAnalysis =
              IF out.kind = "reject" THEN NULL
              ELSE [transcript |-> "Audio analysis would go here"]]
        /\ anPc' = "summary"
        /\ anFetches' = [anFetches EXCEPT
              !.audio = [state |-> "settled", response |-> out],
              !.summary = [state |-> "inflight"]]
        /\ UNCHANGED <<anReq, anResponse, anCause>>
        /\ UNCHANGED <<indexVars, upVars, shownProgress, genVars, fanVars, pageVars>>

\* generateSummary: the chat-completions fetch settles; whatever goes wrong
\* is caught and yields the fallback text; the handler then answers 200
AnSummarySettles ==
    \E out \in FetchOutcomes :
        /\ anPc = "summary"
        /\ anFetches.summary.state = "inflight"
        /\ anFetches' = [anFetches EXCEPT !.summary = [state |-> "settled", response |-> out]]
        /\ anPc' = "done"
        /\ anResponse' = analysisResponse(
              IF out.kind = "ok" /\ out.wellFormed THEN <<"content">> ELSE SummaryFallback,
              anLocals, anReq.settings)
        /\ UNCHANGED <<anReq, anLocals, anCause>>
        /\ UNCHANGED <<indexVars, upVars, shownProgress, genVars, fanVars, pageVars>>

AnNext ==
    \/ AnReceive
    \/ AnVisionSettles
    \/ AnAudioSettles
    \/ AnSummarySettles

\* ------------------------------------------------------------------------
\* generate-video-from-slides, fan-out implementation: the serve handler
\*
\* Scripts, narrations and enhancements are strings, modelled as sequences
\* of words.  The per-slide calls of one Promise.all settle in any order.

\* slide contents
SlideContents == {"a", "b"}

\* length of the slides array
MaxSlides == 2

SlideArrays ==
    UNION {[1..n -> {[content |-> c] : c \in SlideContents}] : n \in 0..MaxSlides}

\* requests: the method, whether the body parses, whether the parsed body
\* carries slides and settings, the slides; env: whether OPENAI_API_KEY is set
FanRequests ==
    {r \in [method : {"OPTIONS", "POST"}, json : BOOLEAN, hasSlides : BOOLEAN,
            slides : SlideArrays, settings : BOOLEAN, apiKey : BOOLEAN] :
        ~r.hasSlides => r.slides = <<>>}

\* how a per-slide fetch settles
FanOutcomes ==
    {o \in FetchOutcomes : o.kind = "status" => o.statusText = <<"Unauthorized">>}

SlidesRequired == <<"Slides", "data", "is", "required">>

\* what generateSlideScript returns once its fetch has settled with out:
\* the generated text, or the slide's own content from the catch block
generateSlideScript(slide, out) ==
    IF out.kind = "ok" /\ out.wellFormed
    THEN <<"script", "of", slide.content>>
    ELSE <<slide.content>>

\* what generateVoiceNarration returns: a data URL, or '' from the catch block
generateVoiceNarration(script, out) ==
    IF out.kind = "ok"
    THEN <<"data:audio/mp3;base64">> \o script
    ELSE <<>>

\* what generateVisualEnhancements returns: the suggestions, or the default
\* object from the catch block
generateVisualEnhancements(slide, out) ==
    IF out.kind = "ok" /\ out.wellFormed
    THEN [suggestions |-> <<"suggestions", "for", slide.content>>]
    ELSE [suggestions |-> <<"Standard", "visual", "enhancements", "applied">>]

\* the 200 response with the results taken in reverse array order
videoData_reversed(slides, calls) ==
    [status |-> 200, headers |-> corsHeaders \cup {"Content-Type"},
     body |-> [slides |-> [i \in 1..Len(slides) |->
                   [content |-> slides[i].content,
                    script |-> calls.scripts[Len(slides) + 1 - i].value,
                    audioUrl |-> calls.audio[Len(slides) + 1 - i].value,
                    visualEnhancements |-> calls.visual[Len(slides) + 1 - i].value]],
               metadata |-> [style |-> "professional"],
               downloadUrl |-> "https://example.com/video/.mp4"]]

\* the 200 response
videoData(slides, calls) ==
    [status |-> 200, headers |-> corsHeaders \cup {"Content-Type"},
     body |-> [slides |-> [i \in 1..Len(slides) |->
                   [content |-> slides[i].content,
                    script |-> calls.scripts[i].value,
                    audioUrl |-> calls.audio[i].value,
                    visualEnhancements |-> calls.visual[i].value]],
               metadata |-> [style |-> "professional"],
               downloadUrl |-> "https://example.com/video/.mp4"]]

\* the handler ends by throwing: the catch block answers
FanThrow(cause, message) ==
    /\ fanPc' = "done"
    /\ fanCause' = cause
    /\ fanResponse' = errorResponse(message)

AllInflight(n) == [i \in 1..n |-> [state |-> "inflight"]]

AllSettled(slots) == \A i \in 1..Len(slots) : slots[i].state = "settled"

\* the handler up to its await on the first Promise.all
FanServe(req) ==
    /\ fanPc = "idle"
    /\ fanReq' = req
    /\ IF req.method = "OPTIONS"
       THEN /\ fanPc' = "done"
            /\ fanResponse' = optionsResponse
            /\ UNCHANGED <<fanCause, fanCalls>>
       ELSE IF ~req.json
       THEN FanThrow("other", RuntimeSyntaxError) /\ UNCHANGED fanCalls
       ELSE IF ~req.hasSlides \/ Len(req.slides) = 0
       THEN FanThrow("validation", SlidesRequired) /\ UNCHANGED fanCalls
       ELSE IF ~req.apiKey
       THEN FanThrow("config", KeyNotConfigured) /\ UNCHANGED fanCalls
       ELSE IF ~req.settings
       THEN FanThrow("other", RuntimeTypeError) /\ UNCHANGED fanCalls
       ELSE /\ fanPc' = "scripts"
            /\ fanCalls' = [fanCalls EXCEPT !.scripts = AllInflight(Len(req.slides))]
            /\ UNCHANGED <<fanCause, fanResponse>>

\* a request arrives
FanReceive ==
    /\ \E req \in FanRequests : FanServe(req)
    /\ UNCHANGED <<indexVars, upVars, shownProgress, genVars, anVars, pageVars>>

\* the fetch of one generateSlideScript call settles; when it is the last
\* one, Promise.all resolves and the narration calls are made
FanScriptSettles ==
    \E i \in 1..Len(fanCalls.scripts), out \in FanOutcomes :
        /\ fanPc = "scripts"
        /\ fanCalls.scripts[i].state = "inflight"
        /\ LET slots == [fanCalls.scripts EXCEPT ![i] =
                           [state |-> "settled", response |-> out,
                            value |-> generateSlideScript(fanReq.slides[i], out)]]
           IN IF AllSettled(slots)
              THEN /\ fanPc' = "audio"
                   /\ fanCalls' = [fanCalls EXCEPT !.scripts = slots,
                                                   !.audio = AllInflight(Len(slots))]
              ELSE /\ fanCalls' = [fanCalls EXCEPT !.scripts = slots]
                   /\ UNCHANGED fanPc
        /\ UNCHANGED <<fanReq, fanResponse, fanCause>>
        /\ UNCHANGED <<indexVars, upVars, shownProgress, genVars, anVars, pageVars>>

\* the fetch of one generateVoiceNarration call settles; when it is the last
\* one, the visual-enhancement calls are made
FanAudioSettles ==
    \E i \in 1..Len(fanCalls.audio), out \in FanOutcomes :
        /\ fanPc = "audio"
        /\ fanCalls.audio[i].state = "inflight"
        /\ LET slots == [fanCalls.audio EXCEPT ![i] =
                           [state |-> "settled", response |-> out,
                            value |-> generateVoiceNarration(fanCalls.scripts[i].value, out)]]
           IN IF AllSettled(slots)
              THEN /\ fanPc' = "visual"
                   /\ fanCalls' = [fanCalls EXCEPT !.audio = slots,
                                                   !.visual = AllInflight(Len(slots))]
              ELSE /\ fanCalls' = [fanCalls EXCEPT !.audio = slots]
                   /\ UNCHANGED fanPc
        /\ UNCHANGED <<fanReq, fanResponse, fanCause>>
        /\ UNCHANGED <<indexVars, upVars, shownProgress, genVars, anVars, pageVars>>

\* the fetch of one generateVisualEnhancements call settles; when it is the
\* last one, the handler answers 200
FanVisualSettles ==
    \E i \in 1..Len(fanCalls.visual), out \in FanOutcomes :
        /\ fanPc = "visual"
        /\ fanCalls.visual[i].state = "inflight"
        /\ LET slots == [fanCalls.visual EXCEPT ![i] =
                           [state |-> "settled", response |-> out,
                            value |-> generateVisualEnhancements(fanReq.slides[i], out)]]
           IN /\ fanCalls' = [fanCalls EXCEPT !.visual = slots]
              /\ IF AllSettled(slots)
                 THEN /\ fanPc' = "done"
                      /\ fanResponse' = videoData(fanReq.slides, fanCalls')
                 ELSE UNCHANGED <<fanPc, fanResponse>>
        /\ UNCHANGED <<fanReq, fanCause>>
        /\ UNCHANGED <<indexVars, upVars, shownProgress, genVars, anVars, pageVars>>

FanNext ==
    \/ FanReceive
    \/ FanScriptSettles
    \/ FanAudioSettles
    \/ FanVisualSettles

\* ------------------------------------------------------------------------
\* One request to one of the three backend handlers

\* the request is routed to generate-video-from-slides
RouteGen == AnIdle /\ FanIdle /\ PagesIdle /\ GenReceive

\* the request is routed to analyze-video
RouteAn == GenIdle /\ FanIdle /\ PagesIdle /\ AnReceive

\* the request is routed to the fan-out generate-video-from-slides
RouteFan == GenIdle /\ AnIdle /\ PagesIdle /\ FanReceive

BackendNext ==
    \/ RouteGen
    \/ GenTimePasses
    \/ GenScriptSettles
    \/ GenScriptTimer
    \/ GenAudioSettles
    \/ GenAudioTimer
    \/ RouteAn
    \/ AnVisionSettles
    \/ AnAudioSettles
    \/ AnSummarySettles
    \/ RouteFan
    \/ FanScriptSettles
    \/ FanAudioSettles
    \/ FanVisualSettles

SpecBackend == Init /\ [][BackendNext]_vars

\* the three handlers' views of the one request: the request, the response,
\* the throw that ended it and the outcomes of the provider calls made
Handlers == {"gen", "an", "fan"}

RequestOf(h) == IF h = "gen" THEN genReq ELSE IF h = "an" THEN anReq ELSE fanReq

ResponseOf(h) ==
    IF h = "gen" THEN genResponse ELSE IF h = "an" THEN anResponse ELSE fanResponse

CauseOf(h) == IF h = "gen" THEN genCause ELSE IF h = "an" THEN anCause ELSE fanCause

\* the provider calls the handler has made, as their slots
CallsOf(h) ==
    IF h = "gen" THEN {genFetches[f] : f \in {"script", "audio"}} \ {[state |-> "none"]}
    ELSE IF h = "an"
    THEN {anFetches[f] : f \in {"vision", "audio", "summary"}} \ {[state |-> "none"]}
    ELSE UNION {{fanCalls[p][i] : i \in 1..Len(fanCalls[p])} :
                   p \in {"scripts", "audio", "visual"}}

\* C13: every request that ended by an error raised in a handler is answered
\* with status 500 and the body {success: false, error: <message>}.
C13_ErrorBody ==
    \A h \in Handlers :
        (ResponseOf(h) # NULL /\ CauseOf(h) # "none") =>
            /\ ResponseOf(h).status = 500
            /\ DOMAIN ResponseOf(h).body = {"success", "error"}
            /\ ResponseOf(h).body.success = FALSE

\* C14: a request one of whose provider calls was answered non-2xx never
\* ends in a 200 response.
C14_UpstreamStatusIsError ==
    \A h \in Handlers :
        (ResponseOf(h) # NULL
           /\ \E c \in CallsOf(h) : c.state = "settled" /\ c.response.kind = "status") =>
            ResponseOf(h).status # 200

\* C16: an OPTIONS request is answered with an empty 200 carrying the CORS
\* headers, with no body read, no key check and no provider call; and every
\* response carries the CORS headers.
C16_Cors ==
    \A h \in Handlers :
        ResponseOf(h) # NULL =>
            /\ corsHeaders \subseteq ResponseOf(h).headers
            /\ "Access-Control-Allow-Origin" \in ResponseOf(h).headers
            /\ RequestOf(h).method = "OPTIONS" =>
                  /\ ResponseOf(h).status = 200
                  /\ ResponseOf(h).body = NULL
                  /\ CauseOf(h) = "none"
                  /\ CallsOf(h) = {}

\* the fan-out handler's preflight answer to a request whose body does not
\* parse, with the key absent
C16_Witness ==
    /\ fanReq # NULL
    /\ fanReq.method = "OPTIONS"
    /\ ~fanReq.json
    /\ ~fanReq.apiKey
    /\ fanResponse # NULL
    /\ fanResponse.status = 200

\* whether the request carries what the handler's validation asks for
Valid(h) ==
    /\ RequestOf(h).json
    /\ IF h = "gen" THEN RequestOf(h).slideData
       ELSE IF h = "an" THEN RequestOf(h).videoBase64
       ELSE RequestOf(h).hasSlides /\ Len(RequestOf(h).slides) > 0

\* C17 as stated: with the key absent every non-OPTIONS request is answered
\* with the missing-key error and no provider call is made.
C17_KeyAbsentReported ==
    \A h \in Handlers :
        (RequestOf(h) # NULL /\ RequestOf(h).method # "OPTIONS" /\ ~RequestOf(h).apiKey) =>
            /\ ResponseOf(h) # NULL
            /\ ResponseOf(h).status = 500
            /\ Contains(ResponseOf(h).body.error, <<"API", "key", "not", "configured">>)
            /\ CallsOf(h) = {}

\* C17: with the key absent every non-OPTIONS request is answered with
\* status 500 and no provider call is made; the error is the missing-key
\* error when the body parses and carries the data the handler requires, and
\* the parse or validation error otherwise.
C17_KeyAbsentFatal ==
    \A h \in Handlers :
        (RequestOf(h) # NULL /\ RequestOf(h).method # "OPTIONS" /\ ~RequestOf(h).apiKey) =>
            /\ ResponseOf(h) # NULL
            /\ ResponseOf(h).status = 500
            /\ CallsOf(h) = {}
            /\ Valid(h) <=>
                  Contains(ResponseOf(h).body.error, <<"API", "key", "not", "configured">>)
            /\ ~Valid(h) => CauseOf(h) \in {"other", "validation"}

\* analyze-video answered a well-formed request with the key absent
C17_Witness ==
    /\ anReq # NULL
    /\ anReq.method = "POST"
    /\ anReq.json
    /\ anReq.videoBase64
    /\ ~anReq.apiKey
    /\ anCause = "config"
    /\ anResponse # NULL

\* ------------------------------------------------------------------------
\* SlideToVideo page (src/src/pages/SlideToVideo.tsx, 35-473) and the
\* generateVideoFromSlides call of the local video service it uses

\* progress WebSockets open at the same time
MaxSockets == 2

\* files the user can pick: MIME type and file-name extension
StvFiles ==
    [type : {"application/pdf", "image/png"}, ext : {".pptx", ".png"}]

validTypes ==
    {"application/vnd.ms-powerpoint",
     "application/vnd.openxmlformats-officedocument.presentationml.presentation",
     "application/pdf"}

validExtensions == {".pptx", ".ppt", ".pdf"}

\* progress values a WebSocket message can carry
SocketProgress == {40, 100}

\* how the service's fetch settles: a 2xx answer whose JSON has or lacks a
\* true success member, a non-2xx answer, or a rejection
ServiceOutcomes ==
    {[kind |-> "ok", success |-> b] : b \in BOOLEAN}
      \cup {[kind |-> "status"], [kind |-> "reject"]}

\* handleFileUpload of the page's file input
StvFileUpload ==
    \E file \in StvFiles :
        /\ IF file.type \in validTypes \/ file.ext \in validExtensions
           THEN /\ stvUploadedFile' = file
                /\ stvGeneratedResult' = NULL
           ELSE UNCHANGED <<stvUploadedFile, stvGeneratedResult>>
        /\ UNCHANGED <<stvIsProcessing, stvProgress, stvPc, stvSockets>>
        /\ UNCHANGED <<indexVars, upVars, shownProgress, genVars, anVars, fanVars, vaVars, extraVars>>

\* the Generate button is rendered enabled
GenerateEnabled == stvUploadedFile # NULL /\ ~stvIsProcessing

\* handleGenerateVideo without its test of uploadedFile
handleGenerateVideo_noFileCheck ==
    /\ stvIsProcessing' = TRUE
    /\ stvProgress' = 0
    /\ stvPc' = "encoding"

\* handleGenerateVideo up to its first await
handleGenerateVideo ==
    IF stvUploadedFile = NULL
    THEN UNCHANGED <<stvIsProcessing, stvProgress, stvPc>>
    ELSE /\ stvIsProcessing' = TRUE
         /\ stvProgress' = 0
         /\ stvPc' = "encoding"

\* a click on the Generate button
StvGenerate ==
    /\ GenerateEnabled
    /\ stvSockets < MaxSockets
    /\ handleGenerateVideo
    /\ UNCHANGED <<stvUploadedFile, stvGeneratedResult, stvSockets>>
    /\ UNCHANGED <<indexVars, upVars, shownProgress, genVars, anVars, fanVars, vaVars, extraVars>>

\* fileToBase64 settles: on success generateVideoFromSlides opens its
\* WebSocket and sends the request; on a read error the catch and finally
\* blocks run
StvEncoded ==
    /\ stvPc = "encoding"
    /\ \/ /\ stvPc' = "fetching"
          /\ stvSockets' = stvSockets + 1
          /\ UNCHANGED stvIsProcessing
       \/ /\ stvPc' = "idle"
          /\ stvIsProcessing' = FALSE
          /\ UNCHANGED stvSockets
    /\ UNCHANGED <<stvUploadedFile, stvProgress, stvGeneratedResult>>
    /\ UNCHANGED <<indexVars, upVars, shownProgress, genVars, anVars, fanVars, vaVars, extraVars>>

\* ws.onmessage: the progress callback
StvSocketMessage ==
    \E p \in SocketProgress :
        /\ stvSockets > 0
        /\ stvProgress' = p
        /\ UNCHANGED <<stvUploadedFile, stvIsProcessing, stvGeneratedResult, stvPc, stvSockets>>
        /\ UNCHANGED <<indexVars, upVars, shownProgress, genVars, anVars, fanVars, vaVars, extraVars>>

\* the server closes a WebSocket
StvSocketCloses ==
    /\ stvSockets > 0
    /\ stvPc # "fetching" \/ stvSockets > 1
    /\ stvSockets' = stvSockets - 1
    /\ UNCHANGED <<stvUploadedFile, stvIsProcessing, stvProgress, stvGeneratedResult, stvPc>>
    /\ UNCHANGED <<indexVars, upVars, shownProgress, genVars, anVars, fanVars, vaVars, extraVars>>

\* the service's fetch settles and handleGenerateVideo runs to its end; the
\* service closes its WebSocket only after a 2xx answer
StvSettles ==
    \E out \in ServiceOutcomes :
        /\ stvPc = "fetching"
        /\ stvPc' = "idle"
        /\ stvIsProcessing' = FALSE
        /\ stvSockets' = IF out.kind = "ok" THEN stvSockets - 1 ELSE stvSockets
        /\ IF out.kind = "ok" /\ out.success
           THEN /\ stvGeneratedResult' = [success |-> TRUE]
                /\ stvProgress' = 100
           ELSE UNCHANGED <<stvGeneratedResult, stvProgress>>
        /\ UNCHANGED stvUploadedFile
        /\ UNCHANGED <<indexVars, upVars, shownProgress, genVars, anVars, fanVars, vaVars, extraVars>>

StvNext ==
    \/ StvFileUpload
    \/ StvGenerate
    \/ StvEncoded
    \/ StvSocketMessage
    \/ StvSocketCloses
    \/ StvSettles

\* ------------------------------------------------------------------------
\* Input validation on both sides: the SlideToVideo page is used, or one
\* request reaches one of the three backend handlers

\* the user picks a file on the page
StvOpen == GenIdle /\ AnIdle /\ FanIdle /\ StvFileUpload

ValidationNext ==
    \/ StvOpen
    \/ StvGenerate
    \/ StvEncoded
    \/ StvSocketMessage
    \/ StvSocketCloses
    \/ StvSettles
    \/ RouteGen
    \/ GenTimePasses
    \/ GenScriptSettles
    \/ GenScriptTimer
    \/ GenAudioSettles
    \/ GenAudioTimer
    \/ RouteAn
    \/ AnVisionSettles
    \/ AnAudioSettles
    \/ AnSummarySettles
    \/ RouteFan
    \/ FanScriptSettles
    \/ FanAudioSettles
    \/ FanVisualSettles

SpecValidation == Init /\ [][ValidationNext]_vars

MaxAnalyses == 1

\* stages.length of simulateProgress
SimStages == 6

\* currentProgress += 1.5, in sixths
SimStep == 9

\* 100 / stages.length, in sixths
SimStageSpan == 100

\* setProgress(100), in sixths
ProgressDone == 600

\* files the user can pick: MIME type, file-name extension, whether the
\* file is empty
VaFiles ==
    {[type |-> "video/mp4", ext |-> ".mp4", empty |-> FALSE],
     [type |-> "", ext |-> ".mov", empty |-> TRUE],
     [type |-> "text/plain", ext |-> ".txt", empty |-> FALSE]}

vaValidTypes == {"video/mp4", "video/avi", "video/mov", "video/wmv", "video/webm"}

vaValidExtensions == {".mp4", ".avi", ".mov", ".wmv", ".webm"}

Min(a, b) == IF a < b THEN a ELSE b

\* handleFileUpload of the page's file input
VaFileUpload ==
    \E file \in VaFiles :
        /\ IF file.type \in vaValidTypes \/ file.ext \in vaValidExtensions
           THEN /\ vaUploadedFile' = file
                /\ vaResults' = NULL
           ELSE UNCHANGED <<vaUploadedFile, vaResults>>
        /\ UNCHANGED <<vaIsProcessing, vaProgress, vaPc, vaSims, vaInvoke, vaToast>>
        /\ UNCHANGED <<indexVars, upVars, shownProgress, genVars, anVars, fanVars, stvVars, extraVars>>

\* the Analyze button is rendered enabled
AnalyzeEnabled == vaUploadedFile # NULL /\ ~vaIsProcessing

\* handleAnalyzeVideo up to its first await, simulateProgress included
handleAnalyzeVideo ==
    IF vaUploadedFile = NULL
    THEN /\ vaToast' = "No file selected"
         /\ UNCHANGED <<vaIsProcessing, vaProgress, vaPc, vaSims>>
    ELSE /\ vaIsProcessing' = TRUE
         /\ vaProgress' = 0
         /\ vaSims' = Append(vaSims, [stageIndex |-> 0, currentProgress |-> 0,
                                      timer |-> "interval"])
         /\ vaPc' = "encoding"
         /\ UNCHANGED vaToast

\* a click on the Analyze button
VaAnalyze ==
    /\ AnalyzeEnabled
    /\ Len(vaSims) < MaxAnalyses
    /\ handleAnalyzeVideo
    /\ UNCHANGED <<vaUploadedFile, vaResults, vaInvoke>>
    /\ UNCHANGED <<indexVars, upVars, shownProgress, genVars, anVars, fanVars, stvVars, extraVars>>

\* the catch and finally blocks of handleAnalyzeVideo
VaFails ==
    /\ vaToast' = "Analysis failed"
    /\ vaIsProcessing' = FALSE
    /\ vaPc' = "idle"
    /\ UNCHANGED <<vaResults, vaProgress>>

\* fileToBase64 settles: the request is sent, or the read error is caught
VaEncoded ==
    /\ vaPc = "encoding"
    /\ \/ /\ vaPc' = "invoking"
          /\ UNCHANGED <<vaIsProcessing, vaToast, vaResults, vaProgress>>
       \/ VaFails
    /\ UNCHANGED <<vaUploadedFile, vaSims, vaInvoke>>
    /\ UNCHANGED <<indexVars, upVars, shownProgress, genVars, anVars, fanVars, stvVars, extraVars>>

\* the request reaches the handler, which runs up to its first await
VaDeliver ==
    \E key \in BOOLEAN :
        /\ vaPc = "invoking"
        /\ AnServe([method |-> "POST", json |-> TRUE,
                    videoBase64 |-> ~vaUploadedFile.empty,
                    settings |-> [analysisType |-> "comprehensive"],
                    apiKey |-> key])
        /\ vaPc' = "serving"
        /\ UNCHANGED <<vaUploadedFile, vaIsProcessing, vaProgress, vaResults, vaSims,
                       vaInvoke, vaToast>>
        /\ UNCHANGED <<indexVars, upVars, shownProgress, genVars, fanVars, stvVars, extraVars>>

\* the request never reaches the handler: invoke returns an error
VaInvokeFails ==
    /\ vaPc = "invoking"
    /\ vaInvoke' = [data |-> NULL, error |-> TRUE]
    /\ VaFails
    /\ UNCHANGED <<vaUploadedFile, vaSims>>
    /\ UNCHANGED <<indexVars, upVars, shownProgress, genVars, anVars, fanVars, stvVars, extraVars>>

\* functions.invoke: data is the parsed body of a 2xx answer, error is set
\* for any other answer
invoke(response) ==
    IF response.status = 200
    THEN [data |-> response.body, error |-> FALSE]
    ELSE [data |-> NULL, error |-> TRUE]

\* the handler's response arrives and handleAnalyzeVideo runs to its end
VaResponse ==
    /\ vaPc = "serving"
    /\ anPc = "done"
    /\ vaInvoke' = invoke(anResponse)
    /\ IF /\ ~vaInvoke'.error
          /\ vaInvoke'.data # NULL
          /\ "success" \in DOMAIN vaInvoke'.data
          /\ vaInvoke'.data.success = TRUE
       THEN /\ vaResults' = [success |-> TRUE, summary |-> vaInvoke'.data.summary]
            /\ vaProgress' = ProgressDone
            /\ vaToast' = "Analysis complete!"
            /\ vaIsProcessing' = FALSE
            /\ vaPc' = "idle"
       ELSE VaFails
    /\ anPc' = "idle"
    /\ anReq' = NULL
    /\ anFetches' = [vision |-> [state |-> "none"], audio |-> [state |-> "none"],
                     summary |-> [state |-> "none"]]
    /\ anLocals' = [visualAnalysis |-> NULL, audioAnalysis |-> NULL]
    /\ anResponse' = NULL
    /\ anCause' = "none"
    /\ UNCHANGED <<vaUploadedFile, vaSims>>
    /\ UNCHANGED <<indexVars, upVars, shownProgress, genVars, fanVars, stvVars, extraVars>>

\* the 80 ms interval of a simulateProgress call fires
VaSimTick ==
    \E k \in 1..Len(vaSims) :
        /\ vaSims[k].timer = "interval"
        /\ LET sim == vaSims[k]
               currentProgress == sim.currentProgress + SimStep
               stageProgress == (sim.stageIndex + 1) * SimStageSpan
           IN /\ vaProgress' = Min(currentProgress, stageProgress)
              /\ vaSims' = [vaSims EXCEPT ![k] =
                    IF currentProgress >= stageProgress
                    THEN [stageIndex |-> sim.stageIndex + 1,
                          currentProgress |-> currentProgress,
                          timer |-> "timeout"]
                    ELSE [sim EXCEPT !.currentProgress = currentProgress]]
        /\ UNCHANGED <<vaUploadedFile, vaIsProcessing, vaResults, vaPc, vaInvoke, vaToast>>
        /\ UNCHANGED <<indexVars, upVars, shownProgress, genVars, anVars, fanVars, stvVars, extraVars>>

\* the 300 ms timeout of a simulateProgress call fires: updateProgress
\* starts the interval of the next stage, or does nothing after the last
VaSimTimeout ==
    \E k \in 1..Len(vaSims) :
        /\ vaSims[k].timer = "timeout"
        /\ vaSims' = IF vaSims[k].stageIndex < SimStages
                     THEN [vaSims EXCEPT ![k].timer = "interval"]
                     ELSE RemoveAt(vaSims, k)
        /\ UNCHANGED <<vaUploadedFile, vaIsProcessing, vaProgress, vaResults, vaPc,
                       vaInvoke, vaToast>>
        /\ UNCHANGED <<indexVars, upVars, shownProgress, genVars, anVars, fanVars, stvVars, extraVars>>

AnalysisNext ==
    \/ VaFileUpload
    \/ VaAnalyze
    \/ VaEncoded
    \/ VaDeliver
    \/ VaInvokeFails
    \/ VaResponse
    \/ VaSimTick
    \/ VaSimTimeout
    \/ AnVisionSettles
    \/ AnSummarySettles

SpecAnalysis == Init /\ [][AnalysisNext]_vars

\* C20: a 200 response of analyze-video carries success, summary,
\* keyInsights, transcript, metadata and visualAnalysis, and after a 200
\* response the page holds results and has not reported 'Analysis failed'.
C20_SuccessStored ==
    /\ (anResponse # NULL /\ anResponse.status = 200) =>
          {"success", "summary", "keyInsights", "transcript", "metadata",
           "visualAnalysis"} \subseteq DOMAIN anResponse.body
    /\ (vaPc = "idle" /\ vaInvoke # NULL /\ ~vaInvoke.error) =>
          /\ vaResults # NULL
          /\ vaToast # "Analysis failed"

\* ------------------------------------------------------------------------
\* FileUpload (src/src/components/FileUpload.tsx) inside the Index page
\*
\* The drop zone and the file input are rendered only while uploadedFile is
\* null and take no input while isUploading is true.  The page may hold
\* results without a file: a run that outlives the removal of its file
\* still delivers them.

ACCEPTED_VIDEO_TYPES ==
    {"video/mp4", "video/mov", "video/quicktime", "video/avi", "video/x-msvideo",
     "video/mkv", "video/x-matroska", "video/webm"}

MAX_FILE_SIZE == 500 * 1024 * 1024

\* files the user can offer: MIME type and size in bytes
UpFiles ==
    [type : {"video/mp4", "video/x-matroska", "video/webm", "application/pdf", ""},
     size : {0, 1, 524288000, 524288001}]

\* validateFile without the size test
validateFile_noSizeLimit(file) ==
    IF file.type \notin ACCEPTED_VIDEO_TYPES THEN "Unsupported file type"
    ELSE "ok"

\* validateFile: "ok" for true, else the title of the toast it shows
validateFile(file) ==
    IF file.type \notin ACCEPTED_VIDEO_TYPES THEN "Unsupported file type"
    ELSE IF file.size > MAX_FILE_SIZE THEN "File too large"
    ELSE "ok"

UploadInit ==
    /\ uploadedFile = NULL
    /\ apiConfig = [vision |-> [isValid |-> FALSE], audio |-> [isValid |-> FALSE]]
    /\ analysisSettings = [frameCount |-> 10]
    /\ processingState = NULL
    /\ results \in {NULL} \cup {mockResults(c) : c \in FrameCounts}
    /\ runs = <<>>
    /\ StatusIdle
    /\ GenIdle
    /\ RestIdle

\* handleFileProcess up to its await
handleFileProcess(file) ==
    IF validateFile(file) # "ok"
    THEN /\ upToast' = validateFile(file)
         /\ UNCHANGED <<upIsUploading, upPending>>
    ELSE /\ upIsUploading' = TRUE
         /\ upPending' = file
         /\ UNCHANGED upToast

\* a file is dropped on the drop zone or chosen in the file input
UpOffer ==
    \E file \in UpFiles :
        /\ uploadedFile = NULL
        /\ ~upIsUploading
        /\ handleFileProcess(file)
        /\ UNCHANGED <<indexVars, shownProgress, genVars, anVars, fanVars, pageVars>>

\* the 1500 ms wait of handleFileProcess ends
UpTimer ==
    /\ upPending # NULL
    /\ upIsUploading' = FALSE
    /\ upPending' = NULL
    /\ UNCHANGED upToast
    /\ handleFileUpload(upPending)

UploadNext ==
    \/ UpOffer
    \/ UpTimer
    \/ removeFile

SpecUpload == UploadInit /\ [][UploadNext]_vars

\* C19: offering a file whose type is in the allowlist and whose size is at
\* most 500MB starts the upload of that file; offering any other file shows
\* 'Unsupported file type' (type not allowed) or 'File too large' and leaves
\* isUploading false, hands nothing to onFileUpload and leaves uploadedFile
\* and results as they were; so only accepted files ever become the
\* uploaded file.
C19_AcceptExactly ==
    /\ [][\A file \in UpFiles :
            (uploadedFile = NULL /\ ~upIsUploading /\ handleFileProcess(file)) =>
               IF file.type \in ACCEPTED_VIDEO_TYPES /\ file.size <= 500 * 1024 * 1024
               THEN /\ upIsUploading'
                    /\ upPending' = file
                    /\ upToast' = upToast
               ELSE /\ upToast' = (IF file.type \in ACCEPTED_VIDEO_TYPES
                                   THEN "File too large" ELSE "Unsupported file type")
                    /\ upIsUploading' = FALSE
                    /\ upPending' = NULL
                    /\ uploadedFile' = uploadedFile
                    /\ results' = results
         ]_vars
    /\ [](\A file \in {uploadedFile, upPending} \ {NULL} :
             file.type \in ACCEPTED_VIDEO_TYPES /\ file.size <= 500 * 1024 * 1024)
    /\ [](upIsUploading <=> upPending # NULL)

\* a file of an accepted type one byte over the limit was rejected while the
\* page held results
C19_Witness ==
    /\ upToast = "File too large"
    /\ ~upIsUploading
    /\ upPending = NULL
    /\ uploadedFile = NULL
    /\ results # NULL

\* C21: the 200 response of the fan-out handler has one entry per input
\* slide, in input order, and entry i carries the script, narration and
\* enhancements computed from slide i and from what call i of each
\* Promise.all was answered; no narration call exists before every script
\* call has settled.
C21_IndexCorrespondence ==
    /\ (fanResponse # NULL /\ fanReq.method = "POST" /\ fanResponse.status = 200) =>
          LET out == fanResponse.body.slides
              n == Len(fanReq.slides)
          IN /\ DOMAIN out = 1..n
             /\ \A i \in 1..n :
                   /\ out[i].content = fanReq.slides[i].content
                   /\ out[i].script =
                         generateSlideScript(fanReq.slides[i], fanCalls.scripts[i].response)
                   /\ out[i].audioUrl =
                         generateVoiceNarration(out[i].script, fanCalls.audio[i].response)
                   /\ out[i].visualEnhancements =
                         generateVisualEnhancements(fanReq.slides[i], fanCalls.visual[i].response)
    /\ Len(fanCalls.audio) > 0 =>
          /\ Len(fanCalls.audio) = Len(fanCalls.scripts)
          /\ AllSettled(fanCalls.scripts)
    /\ Len(fanCalls.visual) > 0 => AllSettled(fanCalls.audio)

\* two different slides were answered 200, the first slide's script call
\* having failed and the second one's succeeded
C21_Witness ==
    /\ fanResponse # NULL
    /\ fanReq.method = "POST"
    /\ fanResponse.status = 200
    /\ Len(fanReq.slides) = 2
    /\ fanReq.slides[1].content # fanReq.slides[2].content
    /\ fanCalls.scripts[1].response.kind = "status"
    /\ fanCalls.scripts[2].response = [kind |-> "ok", wellFormed |-> TRUE]
    /\ fanCalls.audio[2].response.kind = "ok"

\* ------------------------------------------------------------------------
\* VideoAnalysis page with the demo-mode fallback (src/unnamed/part_000)
\*
\* The progress interval has no state of its own: its callback is the
\* updater prev => prev >= 90 ? prev : prev + Math.random() * 10, and it
\* clears itself when it finds prev >= 90.  handleAnalyzeVideo clears it only
\* after the fetch has resolved.

\* left-over progress intervals that may be live when a run is started
MaxIntervals == 1

\* values of Math.random() * 10, which lies in [0, 10)
RandomSteps == {4, 9}

\* if (prev >= 90)
IntervalStop == 90

\* files the user can pick
DmFiles ==
    {[type |-> "video/mp4", ext |-> ".mp4"], [type |-> "text/plain", ext |-> ".txt"]}

\* how the fetch settles: a 2xx answer whose body parses or does not, a
\* non-2xx answer, or a rejection
DmOutcomes == {"ok", "badJson", "status", "reject"}

\* handleFileUpload of the page's file input
DmFileUpload ==
    \E file \in DmFiles :
        /\ IF file.type \in vaValidTypes \/ file.ext \in vaValidExtensions
           THEN dmUploadedFile' = file
           ELSE UNCHANGED dmUploadedFile
        /\ UNCHANGED <<dmIsProcessing, dmProgress, dmResults, dmPc, dmIntervals, dmLast>>
        /\ UNCHANGED exceptDm

\* a click on the Analyze button: handleAnalyzeVideo up to its first await
DmAnalyze ==
    /\ dmUploadedFile # NULL
    /\ ~dmIsProcessing
    /\ dmIntervals.leaked <= MaxIntervals
    /\ dmIsProcessing' = TRUE
    /\ dmProgress' = 0
    /\ dmPc' = "encoding"
    /\ UNCHANGED <<dmUploadedFile, dmResults, dmIntervals, dmLast>>
    /\ UNCHANGED exceptDm

\* what the catch block leaves in results
catchResults_keep(prev) == prev

catchResults(prev) == [summary |-> "demo"]

\* fileToBase64 settles: the interval is started and the request sent, or
\* the read error is caught
DmEncoded ==
    /\ dmPc = "encoding"
    /\ \/ /\ dmPc' = "fetching"
          /\ dmIntervals' = [dmIntervals EXCEPT !.own = TRUE]
          /\ UNCHANGED <<dmIsProcessing, dmResults, dmLast>>
       \/ /\ dmPc' = "idle"
          /\ dmResults' = catchResults(dmResults)
          /\ dmIsProcessing' = FALSE
          /\ dmLast' = "unread"
          /\ UNCHANGED dmIntervals
    /\ UNCHANGED <<dmUploadedFile, dmProgress>>
    /\ UNCHANGED exceptDm

\* a progress interval fires
DmTick ==
    \E step \in RandomSteps, own \in BOOLEAN :
        /\ IF own THEN dmIntervals.own ELSE dmIntervals.leaked > 0
        /\ IF dmProgress >= IntervalStop
           THEN /\ dmIntervals' = IF own THEN [dmIntervals EXCEPT !.own = FALSE]
                                  ELSE [dmIntervals EXCEPT !.leaked = @ - 1]
                /\ UNCHANGED dmProgress
           ELSE /\ dmProgress' = dmProgress + step
                /\ UNCHANGED dmIntervals
        /\ UNCHANGED <<dmUploadedFile, dmIsProcessing, dmResults, dmPc, dmLast>>
        /\ UNCHANGED exceptDm

\* the fetch settles and handleAnalyzeVideo runs to its end
DmSettles ==
    \E out \in DmOutcomes :
        /\ dmPc = "fetching"
        /\ dmPc' = "idle"
        /\ dmLast' = out
        /\ dmIsProcessing' = FALSE
        /\ IF out = "reject"
           THEN /\ dmResults' = catchResults(dmResults)
                /\ dmIntervals' = [own |-> FALSE,
                                   leaked |-> dmIntervals.leaked +
                                                (IF dmIntervals.own THEN 1 ELSE 0)]
                /\ UNCHANGED dmProgress
           ELSE /\ dmIntervals' = [dmIntervals EXCEPT !.own = FALSE]
                /\ dmProgress' = 100
                /\ dmResults' = IF out = "ok" THEN [summary |-> "analysis"]
                                ELSE catchResults(dmResults)
        /\ UNCHANGED dmUploadedFile
        /\ UNCHANGED exceptDm

DemoNext ==
    \/ DmFileUpload
    \/ DmAnalyze
    \/ DmEncoded
    \/ DmTick
    \/ DmSettles

SpecDemo == Init /\ [][DemoNext]_vars

\* C22: whenever no run of handleAnalyzeVideo is pending and one has
\* finished, results are set and isProcessing is false, whether the fetch
\* was answered 2xx, answered non-2xx or rejected; a failed call leaves the
\* fabricated results.
C22_DemoFallback ==
    /\ (dmPc = "idle" /\ dmLast # "none") =>
          /\ dmResults # NULL
          /\ ~dmIsProcessing
    /\ (dmPc = "idle" /\ dmLast \in {"status", "reject", "badJson", "unread"}) =>
          dmResults = [summary |-> "demo"]
    /\ dmPc # "idle" => dmIsProcessing

\* the first run's fetch rejected
C22_Witness ==
    /\ dmPc = "idle"
    /\ dmLast = "reject"
    /\ dmResults # NULL
    /\ ~dmIsProcessing

\* C23: a step that removes the uploaded file leaves uploadedFile and
\* results null, and the handler it calls raises no error.
C23_RemoveClean ==
    [][(uploadedFile # NULL /\ uploadedFile' = NULL) =>
          /\ results' = NULL
          /\ ~handleFileUploadThrows(uploadedFile')
      ]_vars

\* a pending run that has been cancelled: the Start button is rendered only
\* while processingState is null, so every run but the newest was cancelled,
\* and the newest was too when processingState is null
Cancelled(k) == k < Len(runs) \/ processingState = NULL

\* C24: a timer callback of a cancelled simulateProcessing run changes
\* neither processingState nor results, also after a new run has been
\* started.
C24_CancelledInert ==
    [][\A k \in 1..Len(runs) :
          (Cancelled(k) /\ (StageTimer(k) \/ ProgressTimer(k))) =>
              UNCHANGED <<processingState, results>>
      ]_vars

Sides == {"vision", "audio"}

Other(side) == IF side = "vision" THEN "audio" ELSE "vision"

\* the provider options offered by the two selects
providers == {"openai", "google", "azure"}

\* the keys typed in: none, one of 10 characters, one of 11
ApiKeys == {"", "sk-1234567", "sk-12345678"}

\* handleVisionProviderChange / handleAudioProviderChange
handleProviderChange(side, provider) ==
    /\ acEdits < MaxEdits
    /\ acConfig' = [acConfig EXCEPT ![side].provider = provider, ![side].isValid = FALSE]
    /\ acEdits' = acEdits + 1
    /\ acPending' = [k \in 1..Len(acPending) |-> [acPending[k] EXCEPT !.clean = FALSE]]
    /\ UNCHANGED acTesting
    /\ UNCHANGED exceptAc

\* handleVisionKeyChange / handleAudioKeyChange
handleKeyChange(side, apiKey) ==
    /\ acEdits < MaxEdits
    /\ acConfig' = [acConfig EXCEPT ![side].apiKey = apiKey, ![side].isValid = FALSE]
    /\ acEdits' = acEdits + 1
    /\ acPending' = [k \in 1..Len(acPending) |-> [acPending[k] EXCEPT !.clean = FALSE]]
    /\ UNCHANGED acTesting
    /\ UNCHANGED exceptAc

\* the Test Connection button of a side is enabled
TestEnabled(side) == acConfig[side].apiKey # "" /\ ~acTesting[side]

\* testVisionConnection / testAudioConnection up to the await: the closure
\* keeps the config of the render in which the button was clicked.  clean and
\* paired are history: no edit since the test began, and the other side's
\* test was in flight, with no edit since it began, when this one started.
testConnection(side) ==
    /\ TestEnabled(side)
    /\ acConfig[side].apiKey # ""
    /\ acTesting' = [acTesting EXCEPT ![side] = TRUE]
    /\ acPending' = Append(acPending,
           [side |-> side, config |-> acConfig, clean |-> TRUE,
            paired |-> \E k \in 1..Len(acPending) : acPending[k].clean])
    /\ UNCHANGED <<acConfig, acEdits>>
    /\ UNCHANGED exceptAc

\* the config a completing test hands to onConfigChange
testResult(test) ==
    [test.config EXCEPT ![test.side].isValid = Len(test.config[test.side].apiKey) > 10]

\* the rest of testVisionConnection / testAudioConnection, after the 2000 ms
\* wait; equal waits expire in the order the tests began
TestCompletes ==
    /\ acPending # <<>>
    /\ acConfig' = testResult(Head(acPending))
    /\ acTesting' = [acTesting EXCEPT ![Head(acPending).side] = FALSE]
    /\ acPending' = Tail(acPending)
    /\ UNCHANGED acEdits
    /\ UNCHANGED exceptAc

ConfigNext ==
    \/ \E side \in Sides, provider \in providers : handleProviderChange(side, provider)
    \/ \E side \in Sides, apiKey \in ApiKeys : handleKeyChange(side, apiKey)
    \/ \E side \in Sides : testConnection(side)
    \/ TestCompletes

SpecConfig == Init /\ [][ConfigNext]_vars

\* C26: a completing connection test changes only its own side's isValid
\* (no key, no provider, nothing of the other side), and when the two tests
\* overlap with keys longer than 10 characters and no edit in between, both
\* sides are valid once the second has completed.
C26_NoLostUpdate ==
    [][TestCompletes =>
          LET test == Head(acPending)
          IN /\ acConfig'[Other(test.side)] = acConfig[Other(test.side)]
             /\ acConfig'[test.side].apiKey = acConfig[test.side].apiKey
             /\ acConfig'[test.side].provider = acConfig[test.side].provider
             /\ (/\ test.paired
                 /\ test.clean
                 /\ Len(acPending) = 1
                 /\ \A side \in Sides : Len(test.config[side].apiKey) > 10)
                   => \A side \in Sides : acConfig'[side].isValid
      ]_vars

\* C27: once generateVideoFromSlides has settled, however it settled, the
\* WebSocket opened for the request is closed and gone from wsConnections,
\* so that no socket is left to call the progress callback.
C27_SocketReleased == stvPc = "idle" => stvSockets = 0

\* ------------------------------------------------------------------------
\* BackendStatus (src/src/components/BackendStatus.tsx) and the
\* checkBackendHealth call of the local video service

\* what checkBackendHealth resolves to: the JSON of /health, or its own
\* answer when the fetch or the parse fails
HealthResults ==
    {[status |-> "healthy", ollama_connected |-> TRUE],
     [status |-> "healthy", ollama_connected |-> FALSE],
     [status |-> "unhealthy", ollama_connected |-> FALSE]}

\* checkStatus up to its await
checkStatus ==
    /\ bsStarted < MaxChecks
    /\ bsLoading' = TRUE
    /\ bsStarted' = bsStarted + 1
    /\ bsChecks' = bsChecks \cup {bsStarted + 1}
    /\ UNCHANGED <<bsStatus, bsShown>>
    /\ UNCHANGED exceptBs

\* the effect of the first render: the first check; the interval is set
BsMount == bsStarted = 0 /\ checkStatus

\* the 30-second interval fires
BsInterval == bsStarted > 0 /\ checkStatus

\* a click on Refresh, which is disabled while loading
BsRefresh == bsStarted > 0 /\ ~bsLoading /\ checkStatus

\* checkBackendHealth of a call resolves and checkStatus runs to its end
BsSettles ==
    \E id \in bsChecks, health \in HealthResults :
        /\ bsStatus' = health
        /\ bsShown' = id
        /\ bsLoading' = FALSE
        /\ bsChecks' = bsChecks \ {id}
        /\ UNCHANGED bsStarted
        /\ UNCHANGED exceptBs

HealthNext ==
    \/ BsMount
    \/ BsInterval
    \/ BsRefresh
    \/ BsSettles

SpecHealth == Init /\ [][HealthNext]_vars

\* C28: loading is true while any health check is in flight, and the status
\* shown is never replaced by the result of a check started earlier than the
\* one it came from.
C28_LatestCheckWins ==
    [][/\ bsChecks' # {} => bsLoading'
       /\ bsShown' >= bsShown]_vars

\* ------------------------------------------------------------------------
\* SlideToVideo page of src/unnamed/part_002, which posts to the hosted
\* generate-video-from-slides function
\*
\* Its progress interval has the updater of the demo-mode page's and, like
\* it, is cleared by handleGenerateVideo only after the fetch has resolved.

\* handleFileUpload of the page's file input
SvFileUpload ==
    \E file \in StvFiles :
        /\ IF file.type \in validTypes \/ file.ext \in validExtensions
           THEN svUploadedFile' = file
           ELSE UNCHANGED svUploadedFile
        /\ UNCHANGED <<svIsProcessing, svProgress, svGeneratedVideo, svPc, svIntervals, svLast>>
        /\ UNCHANGED exceptSv

\* the Generate button of the page is rendered enabled, the test of
\* isProcessing left out
SvGenerateEnabled_whileProcessing == svUploadedFile # NULL

\* the Generate button of the page is rendered enabled
SvGenerateEnabled == svUploadedFile # NULL /\ ~svIsProcessing

\* a click on the Generate button: handleGenerateVideo up to its first await
SvGenerate ==
    /\ SvGenerateEnabled
    /\ svUploadedFile # NULL
    /\ svIntervals.leaked <= MaxIntervals
    /\ svIsProcessing' = TRUE
    /\ svProgress' = 0
    /\ svPc' = "encoding"
    /\ UNCHANGED <<svUploadedFile, svGeneratedVideo, svIntervals, svLast>>
    /\ UNCHANGED exceptSv

\* fileToBase64 settles: the interval is started and the request sent, or
\* the read error is caught
SvEncoded ==
    /\ svPc = "encoding"
    /\ \/ /\ svPc' = "fetching"
          /\ svIntervals' = [svIntervals EXCEPT !.own = TRUE]
          /\ UNCHANGED <<svIsProcessing, svLast>>
       \/ /\ svPc' = "idle"
          /\ svIsProcessing' = FALSE
          /\ svLast' = "unread"
          /\ UNCHANGED svIntervals
    /\ UNCHANGED <<svUploadedFile, svProgress, svGeneratedVideo>>
    /\ UNCHANGED exceptSv

\* a progress interval fires
SvTick ==
    \E step \in RandomSteps, own \in BOOLEAN :
        /\ IF own THEN svIntervals.own ELSE svIntervals.leaked > 0
        /\ IF svProgress >= IntervalStop
           THEN /\ svIntervals' = IF own THEN [svIntervals EXCEPT !.own = FALSE]
                                  ELSE [svIntervals EXCEPT !.leaked = @ - 1]
                /\ UNCHANGED svProgress
           ELSE /\ svProgress' = svProgress + step
                /\ UNCHANGED svIntervals
        /\ UNCHANGED <<svUploadedFile, svIsProcessing, svGeneratedVideo, svPc, svLast>>
        /\ UNCHANGED exceptSv

\* the fetch settles and handleGenerateVideo runs to its end
SvSettles ==
    \E out \in DmOutcomes :
        /\ svPc = "fetching"
        /\ svPc' = "idle"
        /\ svLast' = out
        /\ svIsProcessing' = FALSE
        /\ IF out = "reject"
           THEN /\ svIntervals' = [own |-> FALSE,
                                   leaked |-> svIntervals.leaked +
                                                (IF svIntervals.own THEN 1 ELSE 0)]
                /\ UNCHANGED <<svProgress, svGeneratedVideo>>
           ELSE /\ svIntervals' = [svIntervals EXCEPT !.own = FALSE]
                /\ svProgress' = 100
                /\ svGeneratedVideo' = IF out = "ok" THEN [videoUrl |-> "mock-video-url"]
                                       ELSE svGeneratedVideo
        /\ UNCHANGED svUploadedFile
        /\ UNCHANGED exceptSv

\* ------------------------------------------------------------------------
\* The pages with an isProcessing flag and a progress value.  Each is a
\* route of its own, so one of them is in use at a time.

OpenStv == VaIdle /\ ExtraIdle /\ StvFileUpload

OpenVa == StvIdle /\ ExtraIdle /\ VaFileUpload

OpenSv == StvIdle /\ VaIdle /\ DmIdle /\ SvFileUpload

OpenDm == StvIdle /\ VaIdle /\ SvIdle /\ DmFileUpload

PagesNext ==
    \/ OpenStv
    \/ StvGenerate
    \/ StvEncoded
    \/ StvSocketMessage
    \/ StvSocketCloses
    \/ StvSettles
    \/ OpenVa
    \/ VaAnalyze
    \/ VaEncoded
    \/ VaDeliver
    \/ VaInvokeFails
    \/ VaResponse
    \/ VaSimTick
    \/ VaSimTimeout
    \/ AnVisionSettles
    \/ AnSummarySettles
    \/ OpenSv
    \/ SvGenerate
    \/ SvEncoded
    \/ SvTick
    \/ SvSettles
    \/ OpenDm
    \/ DmAnalyze
    \/ DmEncoded
    \/ DmTick
    \/ DmSettles

SpecPages == Init /\ [][PagesNext]_vars

\* a pending file read, request or provider call settles
Settling ==
    \/ StvEncoded
    \/ StvSettles
    \/ VaEncoded
    \/ VaDeliver
    \/ VaInvokeFails
    \/ VaResponse
    \/ AnVisionSettles
    \/ AnSummarySettles
    \/ SvEncoded
    \/ SvSettles
    \/ DmEncoded
    \/ DmSettles

SpecPagesFair == SpecPages /\ WF_vars(Settling)

\* C29: on each page isProcessing is true exactly while a run of the
\* handler is pending, a run is started only while none is pending, and a
\* run that was started ends with isProcessing false again, however the
\* request settled.
C29_ProcessingWhileRunning ==
    /\ [](/\ stvIsProcessing <=> stvPc # "idle"
          /\ vaIsProcessing <=> vaPc # "idle"
          /\ svIsProcessing <=> svPc # "idle")
    /\ [][/\ StvGenerate => stvPc = "idle"
          /\ VaAnalyze => vaPc = "idle"
          /\ SvGenerate => svPc = "idle"]_vars
    /\ stvIsProcessing ~> ~stvIsProcessing
    /\ vaIsProcessing ~> ~vaIsProcessing
    /\ svIsProcessing ~> ~svIsProcessing

\* a run of the hosted page whose fetch rejected has ended
C29_Witness ==
    /\ svPc = "idle"
    /\ svLast = "reject"
    /\ ~svIsProcessing

\* C30: on the pages of part_002, part_000 and part_001 the progress shown
\* never exceeds 100 and never decreases while a run is pending, it is 100
\* only after a run whose backend call succeeded, and an interval left over
\* from an earlier run does not write the progress of a pending run.
C30_ProgressHonest ==
    [][/\ svProgress' <= 100
       /\ dmProgress' <= 100
       /\ vaProgress' <= ProgressDone
       /\ (svPc # "idle" /\ svPc' # "idle") => svProgress' >= svProgress
       /\ (dmPc # "idle" /\ dmPc' # "idle") => dmProgress' >= dmProgress
       /\ (vaPc # "idle" /\ vaPc' # "idle") => vaProgress' >= vaProgress
       /\ svProgress' = 100 => svLast' = "ok"
       /\ dmProgress' = 100 => dmLast' = "ok"
       /\ vaProgress' = ProgressDone => vaToast' = "Analysis complete!"
       /\ (svPc # "idle" /\ svPc' # "idle" /\ ~svIntervals.own) => svProgress' = svProgress
       /\ (dmPc # "idle" /\ dmPc' # "idle" /\ ~dmIntervals.own) => dmProgress' = dmProgress
      ]_vars

====
